---------------------------- MODULE Spec2Model ----------------------------
(***************************************************************************)
(* A model of the COSMAC VIP CHIP-8 interpreter of chip8-rust:             *)
(* the memory map (src/src/memory.rs) and the fetch / decode / execute /   *)
(* wait-for-interrupt state machine with its opcode handlers               *)
(* (src/src/interpreter.rs).                                               *)
(*                                                                         *)
(* The interpreter is the struct Chip8Interpreter; its fields are the      *)
(* variables below.  A handler is an operator from the interpreter (a      *)
(* record `self` of those fields) to the interpreter after the handler     *)
(* ran; cycle() and interrupt() are the actions.                           *)
(***************************************************************************)
EXTENDS Integers, Sequences, FiniteSets, TLC

VARIABLES
    bytes,              \* Chip8MemoryMap.bytes, 0-based
    stack_pointer,
    instruction,        \* Option<fn>: "None" or the handler's name
    instruction_data,
    program_counter,
    vx,
    vy,
    tone_timer,
    general_timer,
    random,
    i,
    display_pointer,
    state,              \* InterpreterState
    ret,                \* machine cycles returned by the last cycle() / interrupt()
    op,                 \* the last call made: "new", "cycle" or "interrupt"
    fault,              \* "none", "panic" (the thread unwound) or "error" (an Err result)
    drawn,              \* the slice (address, length) last handed to Display::draw
    interrupts,         \* number of interrupt() calls made so far
    last_draw,          \* the last DXYN completed on the framebuffer as it is now
    calls,              \* the calls (2nnn) not yet returned from, oldest first
    polled,             \* what Input::read_key returned to the last cycle(), if called
    saved,              \* the last FX55 whose bytes in memory are as it left them
    written,            \* the arguments of the last MemoryMap::write made from outside
    timer_set,          \* the value last put in general_timer, and the interrupts since
    pending,            \* the last DXYN begun: its frame and the framebuffer it found
    n_calls,            \* the 2nnn executed so far
    n_rets,             \* the 00EE executed so far
    at,                 \* where main_loop is: "idle", "for", "loop", "returned", "unwound"
    frame_count,        \* main_loop's argument
    frame,              \* the index of the for loop
    remaining_sleep,    \* nanoseconds owed to the next frame
    now,                \* the last reading of Instant::now(), in nanoseconds
    frame_end,
    inst_end,
    clock,              \* the wall clock, in nanoseconds since main_loop was called
    slept,              \* the duration given to the last thread::sleep, 0 if it was skipped
    warnings,           \* the warnings printed so far
    cycles,             \* the cycle() calls made in the frame so far
    slow                \* the calls so far that took longer than the machine would

vars == <<bytes, stack_pointer, instruction, instruction_data, program_counter,
          vx, vy, tone_timer, general_timer, random, i, display_pointer, state,
          ret, op, fault, drawn, interrupts, last_draw, calls, polled, saved,
          written, timer_set, pending, n_calls, n_rets, at, frame_count, frame, remaining_sleep, now, frame_end, inst_end,
          clock, slept, warnings, cycles, slow>>

\* the variables of main_loop
loop_vars == <<at, frame_count, frame, remaining_sleep, now, frame_end, inst_end,
               clock, slept, warnings, cycles, slow>>

---------------------------------------------------------------------------
(* Bounds of the model *)

\* interrupt() calls explored in one run (the seed counts them, so they are capped)
MaxInterrupts == 2

---------------------------------------------------------------------------
(* Machine arithmetic: Rust's u8 / u16 operators *)

Pow2(n) == 2 ^ n

RECURSIVE BitAnd(_, _)
BitAnd(a, b) ==
    IF a = 0 \/ b = 0 THEN 0
    ELSE (a % 2) * (b % 2) + 2 * BitAnd(a \div 2, b \div 2)

RECURSIVE BitOr(_, _)
BitOr(a, b) ==
    IF a = 0 THEN b
    ELSE IF b = 0 THEN a
    ELSE (IF a % 2 = 1 \/ b % 2 = 1 THEN 1 ELSE 0) + 2 * BitOr(a \div 2, b \div 2)

RECURSIVE BitXor(_, _)
BitXor(a, b) ==
    IF a = 0 THEN b
    ELSE IF b = 0 THEN a
    ELSE (((a % 2) + (b % 2)) % 2) + 2 * BitXor(a \div 2, b \div 2)

\* a >> n
Shr(a, n) == a \div Pow2(n)

\* (a << n) on a u8: the bits shifted out are lost
Shl8(a, n) == (a * Pow2(n)) % 256

\* u8 / u16 wrapping_add
WrapAdd8(a, b) == (a + b) % 256
WrapAdd16(a, b) == (a + b) % 65536

---------------------------------------------------------------------------
(* memory.rs *)

CHIP8_RAM_SIZE_BYTES == 4096
CHIP8_STACK_OFFSET == 306
CHIP8_WORK_OFFSET == 304
CHIP8_VAR_OFFSET == 272
CHIP8_DISPLAY_OFFSET == 256
CHIP8_PROGRAM_ADDR == 512

CHIP8_INTERPRETER_SOURCE == <<
    145, 187, 255, 1, 178, 182, 246, 207, 162, 248, 129, 177, 248, 70, 161, 144,
    180, 248, 27, 164, 248, 1, 181, 248, 252, 165, 212, 150, 183, 226, 148, 188,
    69, 175, 246, 246, 246, 246, 50, 68, 249, 80, 172, 143, 250, 15, 249, 240,
    166, 5, 246, 246, 246, 246, 249, 240, 167, 76, 179, 188, 252, 15, 172, 12,
    163, 211, 48, 27, 143, 250, 15, 179, 69, 48, 64, 34, 105, 18, 212, 0,
    0, 1, 1, 1, 1, 1, 1, 1, 1, 1, 1, 1, 1, 0, 1, 1,
    0, 124, 117, 131, 139, 149, 180, 183, 188, 145, 235, 164, 217, 112, 153, 5,
    6, 250, 7, 190, 6, 250, 63, 246, 246, 246, 34, 82, 7, 250, 31, 254,
    254, 254, 241, 172, 155, 188, 69, 250, 15, 173, 167, 248, 208, 166, 147, 175,
    135, 50, 243, 39, 74, 189, 158, 174, 142, 50, 164, 157, 246, 189, 143, 118,
    175, 46, 48, 152, 157, 86, 22, 143, 86, 22, 48, 142, 0, 236, 248, 208,
    166, 147, 167, 141, 50, 217, 6, 242, 45, 50, 190, 248, 1, 167, 70, 243,
    92, 2, 251, 7, 50, 210, 28, 6, 242, 50, 206, 248, 1, 167, 6, 243,
    92, 44, 22, 140, 252, 8, 172, 59, 179, 248, 255, 166, 135, 86, 18, 212,
    155, 191, 248, 255, 175, 147, 95, 143, 50, 223, 47, 48, 229, 0, 66, 181,
    66, 165, 212, 141, 167, 135, 50, 172, 42, 39, 48, 245, 0, 0, 0, 0,
    0, 0, 0, 0, 0, 69, 163, 152, 86, 212, 248, 129, 188, 248, 149, 172,
    34, 220, 18, 86, 212, 6, 184, 212, 6, 168, 212, 100, 10, 1, 230, 138,
    244, 170, 59, 40, 154, 252, 1, 186, 212, 248, 145, 186, 6, 250, 15, 170,
    10, 170, 213, 230, 6, 191, 147, 190, 248, 27, 174, 42, 26, 248, 0, 90,
    14, 245, 59, 75, 86, 10, 252, 1, 90, 48, 64, 78, 246, 59, 60, 159,
    86, 42, 42, 212, 0, 34, 134, 82, 248, 240, 167, 7, 90, 135, 243, 23,
    26, 58, 91, 18, 212, 34, 134, 82, 248, 240, 167, 10, 87, 135, 243, 23,
    26, 58, 107, 18, 212, 21, 133, 34, 115, 149, 82, 37, 69, 165, 134, 250,
    15, 181, 212, 69, 230, 243, 58, 130, 21, 21, 212, 69, 230, 243, 58, 136,
    212, 69, 7, 48, 140, 69, 7, 48, 132, 230, 98, 38, 69, 163, 54, 136,
    212, 62, 136, 212, 248, 240, 167, 231, 69, 244, 165, 134, 250, 15, 59, 178,
    252, 1, 181, 212, 69, 86, 212, 69, 230, 244, 86, 212, 69, 250, 15, 58,
    196, 7, 86, 212, 175, 34, 248, 211, 115, 143, 249, 240, 82, 230, 7, 210,
    86, 248, 255, 166, 248, 0, 126, 86, 212, 25, 137, 174, 147, 190, 153, 238,
    244, 86, 118, 230, 244, 185, 86, 69, 242, 86, 212, 69, 170, 134, 250, 15,
    186, 212, 0, 0, 0, 0, 0, 0, 0, 0, 0, 0, 0, 224, 0, 75
>>

\* the fields of Chip8MemoryMap set by Chip8MemoryMap::new
program_addr == CHIP8_PROGRAM_ADDR
\* the stack one byte higher (offset 0x131)
stack_addr_131 == CHIP8_RAM_SIZE_BYTES - 305

stack_addr == CHIP8_RAM_SIZE_BYTES - CHIP8_STACK_OFFSET
work_addr == CHIP8_RAM_SIZE_BYTES - CHIP8_WORK_OFFSET
var_addr == CHIP8_RAM_SIZE_BYTES - CHIP8_VAR_OFFSET
display_addr == CHIP8_RAM_SIZE_BYTES - CHIP8_DISPLAY_OFFSET

\* a slice literal: the 0-based array of a tuple
Arr(seq) == [k \in 0 .. Len(seq) - 1 |-> seq[k + 1]]

\* slice.len()
SliceLen(data) == Cardinality(DOMAIN data)

\* &self.bytes[a..(a + len)] does not panic
SliceOk(m, addr, len) == addr + len <= SliceLen(m)

\* get_ro_slice / get_rw_slice: the bytes of [addr, addr + len), 0-based
get_ro_slice(m, addr, len) == [k \in 0 .. len - 1 |-> m[addr + k]]

\* write copying all of data, whatever len is
write_all_data(m, data, addr, len) ==
    [a \in DOMAIN m |->
        IF a >= addr /\ a - addr < SliceLen(data)
        THEN data[a - addr]
        ELSE m[a]]

\* MemoryMap::write, once get_rw_slice(addr, len) succeeded: `d.read(bytes)` copies
\* min(data.len(), len) bytes
write(m, data, addr, len) ==
    [a \in DOMAIN m |->
        IF a >= addr /\ a < addr + len /\ a - addr < SliceLen(data)
        THEN data[a - addr]
        ELSE m[a]]

\* MemoryMap::get_word: big-endian
get_word(m, addr) == m[addr] * 256 + m[addr + 1]

\* Chip8MemoryMap::new: zeroed RAM with the interpreter image at 0x000
NewMemory ==
    write([a \in 0 .. CHIP8_RAM_SIZE_BYTES - 1 |-> 0],
          Arr(CHIP8_INTERPRETER_SOURCE), 0, 512)

\* Chip8MemoryMap::load_program -> write_any: the whole ROM at program_addr
LoadOk(m, rom) == SliceOk(m, program_addr, Len(rom))
load_program(m, rom) == write(m, Arr(rom), program_addr, Len(rom))

---------------------------------------------------------------------------
(* interpreter.rs: the interpreter as a value *)

\* the Chip8Interpreter the handlers receive as `&mut self`
Self ==
    [bytes |-> bytes, stack_pointer |-> stack_pointer, instruction |-> instruction,
     instruction_data |-> instruction_data, program_counter |-> program_counter,
     vx |-> vx, vy |-> vy, tone_timer |-> tone_timer, general_timer |-> general_timer,
     random |-> random, i |-> i, display_pointer |-> display_pointer, state |-> state,
     ret |-> ret, fault |-> fault]

\* Ok(n): the handler returns n machine cycles
Ok(self, n) == [self EXCEPT !.ret = n]

\* panic!, or a slice index out of range: the thread unwinds
Panic(self) == [self EXCEPT !.fault = "panic"]

\* Err(e), propagated by `?`
Err(self) == [self EXCEPT !.fault = "error"]

\* self.memory.get_ro_slice(self.memory.var_addr + r, 1)[0]
V(self, r) == self.bytes[var_addr + r]

\* self.memory.write(&[v], addr, 1)
write_byte(m, v, addr) == [m EXCEPT ![addr] = v]

---------------------------------------------------------------------------
(* interpreter.rs: fetch and decode *)

\* the `match inst` of fetch_and_decode: the handler, or "panic"
Decode(inst) ==
    IF inst = \h00E0 THEN "inst_clear_screen"
    ELSE IF inst = \h00EE THEN "inst_ret"
    ELSE IF inst >= \h1000 /\ inst <= \h1FFF THEN "inst_branch"
    ELSE IF inst >= \h2000 /\ inst <= \h2FFF THEN "inst_subroutine"
    ELSE IF inst >= \h3000 /\ inst <= \h3FFF THEN "inst_skip_vx_eq"
    ELSE IF inst >= \h4000 /\ inst <= \h4FFF THEN "inst_skip_vx_ne"
    ELSE IF inst >= \h5000 /\ inst <= \h5FFF THEN "inst_x_eq_y"
    ELSE IF inst >= \h6000 /\ inst <= \h6FFF THEN "inst_load_vx"
    ELSE IF inst >= \h7000 /\ inst <= \h7FFF THEN "inst_add_to_vx"
    ELSE IF inst >= \h8000 /\ inst <= \h8FFF THEN
        CASE BitAnd(inst, \hF) = \h0 -> "inst_load_x_with_y"
          [] BitAnd(inst, \hF) = \h1 -> "inst_x_or_with_y"
          [] BitAnd(inst, \hF) = \h2 -> "inst_x_and_with_y"
          [] BitAnd(inst, \hF) = \h3 -> "inst_x_xor_with_y"
          [] BitAnd(inst, \hF) = \h4 -> "inst_x_add_y"
          [] BitAnd(inst, \hF) = \h5 -> "inst_x_minus_y"
          [] BitAnd(inst, \hF) = \h6 -> "inst_rshift_y_load_x"
          [] BitAnd(inst, \hF) = \h7 -> "inst_y_minus_x"
          [] BitAnd(inst, \hF) = \hE -> "inst_lshift_y_load_x"
          [] OTHER -> "panic"
    ELSE IF inst >= \h9000 /\ inst <= \h9FFF THEN "inst_x_ne_y"
    ELSE IF inst >= \hA000 /\ inst <= \hAFFF THEN "inst_set_i"
    ELSE IF inst >= \hB000 /\ inst <= \hBFFF THEN "inst_jump_with_offset"
    ELSE IF inst >= \hC000 /\ inst <= \hCFFF THEN "inst_random"
    ELSE IF inst >= \hD000 /\ inst <= \hDFFF THEN "inst_draw_sprite"
    ELSE IF inst >= \hE000 /\ inst <= \hEFFF THEN
        CASE BitAnd(inst, \hFF) = \h9E -> "inst_skip_key_eq"
          [] BitAnd(inst, \hFF) = \hA1 -> "inst_skip_key_ne"
          [] OTHER -> "panic"
    ELSE IF inst >= \hF000 /\ inst <= \hFFFF THEN
        CASE BitAnd(inst, \hFF) = \h07 -> "inst_get_timer"
          [] BitAnd(inst, \hFF) = \h15 -> "inst_set_timer"
          [] BitAnd(inst, \hFF) = \h1E -> "inst_add_x_to_i"
          [] BitAnd(inst, \hFF) = \h29 -> "inst_load_char"
          [] BitAnd(inst, \hFF) = \h33 -> "inst_x_to_bcd"
          [] BitAnd(inst, \hFF) = \h55 -> "inst_save_v_at_i"
          [] BitAnd(inst, \hFF) = \h65 -> "inst_load_v_at_i"
          [] OTHER -> "panic"
    ELSE "panic"

\* FetchCycles with one cost for every family
FetchCyclesFlat(inst) == 68

\* execution time is 40 cycles for 0xxx and 68 cycles otherwise
FetchCycles(inst) == IF inst > \hFFF THEN 68 ELSE 40

\* fetch_and_decode reading the word low byte first
fetch_little_endian(self) ==
    IF ~SliceOk(self.bytes, self.program_counter, 2) THEN Panic(self)
    ELSE
        LET inst == self.bytes[self.program_counter + 1] * 256
                        + self.bytes[self.program_counter]
            s1 == [self EXCEPT !.vx = Shr(BitAnd(inst, \h0F00), 8),
                               !.vy = Shr(BitAnd(inst, \h00F0), 4)]
        IN  IF Decode(inst) = "panic" THEN Panic(s1)
            ELSE Ok([s1 EXCEPT !.instruction = Decode(inst),
                               !.instruction_data = inst,
                               !.program_counter = self.program_counter + 2,
                               !.state = "Execute"],
                    FetchCycles(inst))

\* fetch_and_decode stepping over a word no handler matches
fetch_skip_unknown(self) ==
    IF ~SliceOk(self.bytes, self.program_counter, 2) THEN Panic(self)
    ELSE
        LET inst == get_word(self.bytes, self.program_counter)
            s1 == [self EXCEPT !.vx = Shr(BitAnd(inst, \h0F00), 8),
                               !.vy = Shr(BitAnd(inst, \h00F0), 4)]
        IN  IF Decode(inst) = "panic"
            THEN Ok([s1 EXCEPT !.program_counter = self.program_counter + 2],
                    FetchCycles(inst))
            ELSE Ok([s1 EXCEPT !.instruction = Decode(inst),
                               !.instruction_data = inst,
                               !.program_counter = self.program_counter + 2,
                               !.state = "Execute"],
                    FetchCycles(inst))

fetch_and_decode(self) ==
    IF ~SliceOk(self.bytes, self.program_counter, 2) THEN Panic(self)
    ELSE
        LET inst == get_word(self.bytes, self.program_counter)
            s1 == [self EXCEPT !.vx = Shr(BitAnd(inst, \h0F00), 8),
                               !.vy = Shr(BitAnd(inst, \h00F0), 4)]
        IN  IF Decode(inst) = "panic" THEN Panic(s1)
            ELSE Ok([s1 EXCEPT !.instruction = Decode(inst),
                               !.instruction_data = inst,
                               !.program_counter = self.program_counter + 2,
                               !.state = "Execute"],
                    FetchCycles(inst))

---------------------------------------------------------------------------
(* interpreter.rs: the opcode handlers *)

\* inst_clear_screen returning its cost without touching the display
inst_clear_screen_nothing(self) ==
    IF ~SliceOk(self.bytes, self.display_pointer, 256) THEN Panic(self)
    ELSE Ok(self, 24)

\* 00e0
inst_clear_screen(self) ==
    IF ~SliceOk(self.bytes, self.display_pointer, 256) THEN Panic(self)
    ELSE Ok([self EXCEPT !.bytes = write(self.bytes, [k \in 0 .. \hFF |-> 0],
                                         self.display_pointer, 256)], 24)

\* 00ee; oc: the build checks arithmetic overflow (`stack_pointer += 2` at 0xFFFE)
inst_ret(self, oc) ==
    LET sp == (self.stack_pointer + 2) % 65536
        s1 == [self EXCEPT !.stack_pointer = sp]
    IN  IF self.stack_pointer + 2 > 65535 /\ oc THEN Panic(self)
        ELSE IF ~SliceOk(self.bytes, sp, 2) THEN Panic(s1)
        ELSE Ok([s1 EXCEPT !.program_counter = get_word(self.bytes, sp)], 10)

\* inst_subroutine growing the stack upwards
inst_subroutine_up(self, oc) ==
    IF ~SliceOk(self.bytes, self.stack_pointer, 2) THEN Panic(self)
    ELSE
        LET s1 == [self EXCEPT !.bytes =
                      write(self.bytes,
                            Arr(<<Shr(self.program_counter, 8) % 256,
                                  BitAnd(self.program_counter, \hFF)>>),
                            self.stack_pointer, 2)]
        IN  Ok([s1 EXCEPT !.stack_pointer = self.stack_pointer + 2,
                          !.program_counter = BitAnd(self.instruction_data, \hFFF)],
               26)

\* 1nnn
inst_branch(self) ==
    Ok([self EXCEPT !.program_counter = BitAnd(self.instruction_data, \hFFF)], 12)

\* 2nnn; oc: the build checks arithmetic overflow (`stack_pointer -= 2` at 0)
inst_subroutine(self, oc) ==
    IF ~SliceOk(self.bytes, self.stack_pointer, 2) THEN Panic(self)
    ELSE
        LET s1 == [self EXCEPT !.bytes =
                      write(self.bytes,
                            Arr(<<Shr(self.program_counter, 8) % 256,
                                  BitAnd(self.program_counter, \hFF)>>),
                            self.stack_pointer, 2)]
        IN  IF self.stack_pointer < 2 /\ oc THEN Panic(s1)
            ELSE Ok([s1 EXCEPT !.stack_pointer = (self.stack_pointer + 65536 - 2) % 65536,
                               !.program_counter = BitAnd(self.instruction_data, \hFFF)],
                    26)

\* inst_skip_vx_eq charging a skip no more than a fall-through
inst_skip_vx_eq_flat(self) ==
    IF V(self, self.vx) = BitAnd(\hFF, self.instruction_data % 256)
    THEN Ok([self EXCEPT !.program_counter = self.program_counter + 2], 10)
    ELSE Ok(self, 10)

\* 3xnn
inst_skip_vx_eq(self) ==
    LET lhs == V(self, self.vx)
        rhs == BitAnd(\hFF, self.instruction_data % 256)
    IN  IF lhs = rhs
        THEN Ok([self EXCEPT !.program_counter = self.program_counter + 2], 14)
        ELSE Ok(self, 10)

\* 4xnn
inst_skip_vx_ne(self) ==
    LET lhs == V(self, self.vx)
        rhs == BitAnd(\hFF, self.instruction_data % 256)
    IN  IF lhs # rhs
        THEN Ok([self EXCEPT !.program_counter = self.program_counter + 2], 14)
        ELSE Ok(self, 10)

\* 5xy0
inst_x_eq_y(self) ==
    LET lhs == V(self, self.vx)
        rhs == V(self, self.vy)
    IN  IF lhs = rhs
        THEN Ok([self EXCEPT !.program_counter = self.program_counter + 2], 18)
        ELSE Ok(self, 14)

\* 6xnn
inst_load_vx(self) ==
    Ok([self EXCEPT !.bytes = write_byte(self.bytes, BitAnd(self.instruction_data, \hFF),
                                         var_addr + self.vx)], 6)

\* inst_add_to_vx leaving the carry of the addition in VF
inst_add_to_vx_carry(self) ==
    LET v == V(self, self.vx)
        sum == v + BitAnd(self.instruction_data, \hFF)
    IN  Ok([self EXCEPT !.bytes = write_byte(write_byte(self.bytes, BitAnd(sum, \hFF),
                                                        var_addr + self.vx),
                                             sum \div 256, var_addr + 15)], 10)

\* 7xnn
inst_add_to_vx(self) ==
    LET v == V(self, self.vx)
    IN  Ok([self EXCEPT !.bytes[var_addr + self.vx] =
                BitAnd(v + BitAnd(self.instruction_data, \hFF), \hFF)], 10)

\* 8xy0
inst_load_x_with_y(self) ==
    LET y == V(self, self.vy)
    IN  Ok([self EXCEPT !.bytes = write_byte(self.bytes, y, var_addr + self.vx)], 12)

\* 8xy1
inst_x_or_with_y(self) ==
    LET y == V(self, self.vy)
    IN  Ok([self EXCEPT !.bytes[var_addr + self.vx] = BitOr(V(self, self.vx), y)], 44)

\* 8xy2
inst_x_and_with_y(self) ==
    LET y == V(self, self.vy)
    IN  Ok([self EXCEPT !.bytes[var_addr + self.vx] = BitAnd(V(self, self.vx), y)], 44)

\* 8xy3
inst_x_xor_with_y(self) ==
    LET y == V(self, self.vy)
    IN  Ok([self EXCEPT !.bytes[var_addr + self.vx] = BitXor(V(self, self.vx), y)], 44)

\* inst_x_add_y carrying from 0xFF on
inst_x_add_y_carry_at_ff(self) ==
    LET y == V(self, self.vy)
        res == V(self, self.vx) + y
        m1 == [self.bytes EXCEPT ![var_addr + self.vx] = BitAnd(\hFF, res % 256)]
    IN  Ok([self EXCEPT !.bytes =
                write_byte(m1, IF res >= \hFF THEN 1 ELSE 0, var_addr + \hF)], 44)

\* 8xy4
inst_x_add_y(self) ==
    LET y == V(self, self.vy)
        res == V(self, self.vx) + y
        m1 == [self.bytes EXCEPT ![var_addr + self.vx] = BitAnd(\hFF, res % 256)]
    IN  Ok([self EXCEPT !.bytes =
                write_byte(m1, IF res > \hFF THEN 1 ELSE 0, var_addr + \hF)], 44)

\* inst_x_minus_y reporting a borrow for equal operands
inst_x_minus_y_strict(self) ==
    LET y == V(self, self.vy)
        res == 256 + V(self, self.vx) - y
        m1 == [self.bytes EXCEPT ![var_addr + self.vx] = BitAnd(\hFF, res % 256)]
    IN  Ok([self EXCEPT !.bytes =
                write_byte(m1, IF res <= 256 THEN 0 ELSE 1, var_addr + \hF)], 44)

\* 8xy5
inst_x_minus_y(self) ==
    LET y == V(self, self.vy)
        res == 256 + V(self, self.vx) - y
        m1 == [self.bytes EXCEPT ![var_addr + self.vx] = BitAnd(\hFF, res % 256)]
    IN  Ok([self EXCEPT !.bytes =
                write_byte(m1, IF res < 256 THEN 0 ELSE 1, var_addr + \hF)], 44)

\* inst_rshift_y_load_x shifting VX in place
inst_rshift_x(self) ==
    LET x == V(self, self.vx)
        m1 == write_byte(self.bytes, Shr(x, 1), var_addr + self.vx)
    IN  Ok([self EXCEPT !.bytes = write_byte(m1, BitAnd(x, 1), var_addr + \hF)], 44)

\* 8xy6
inst_rshift_y_load_x(self) ==
    LET y == V(self, self.vy)
        res == Shr(y, 1)
        m1 == write_byte(self.bytes, res, var_addr + self.vx)
        m2 == write_byte(m1, res, var_addr + self.vy)
    IN  Ok([self EXCEPT !.bytes = write_byte(m2, BitAnd(y, 1), var_addr + \hF)], 44)

\* inst_y_minus_x writing the flag first and the difference last
inst_y_minus_x_flag_first(self) ==
    LET y == V(self, self.vy)
        res == 256 + y - V(self, self.vx)
        m1 == write_byte(self.bytes, IF res < 256 THEN 0 ELSE 1, var_addr + \hF)
    IN  Ok([self EXCEPT !.bytes =
                [m1 EXCEPT ![var_addr + self.vx] = BitAnd(\hFF, res % 256)]], 44)

\* 8xy7
inst_y_minus_x(self) ==
    LET y == V(self, self.vy)
        res == 256 + y - V(self, self.vx)
        m1 == [self.bytes EXCEPT ![var_addr + self.vx] = BitAnd(\hFF, res % 256)]
    IN  Ok([self EXCEPT !.bytes =
                write_byte(m1, IF res < 256 THEN 0 ELSE 1, var_addr + \hF)], 44)

\* 8xye
inst_lshift_y_load_x(self) ==
    LET y == V(self, self.vy)
        res == BitAnd(Shl8(y, 1), \hFF)
        m1 == write_byte(self.bytes, res, var_addr + self.vx)
        m2 == write_byte(m1, res, var_addr + self.vy)
    IN  Ok([self EXCEPT !.bytes = write_byte(m2, Shr(BitAnd(y, \h80), 7), var_addr + \hF)],
           44)

\* 9xy0
inst_x_ne_y(self) ==
    LET lhs == V(self, self.vx)
        rhs == V(self, self.vy)
    IN  IF lhs # rhs
        THEN Ok([self EXCEPT !.program_counter = self.program_counter + 2], 18)
        ELSE Ok(self, 14)

\* annn
inst_set_i(self) ==
    Ok([self EXCEPT !.i = BitAnd(self.instruction_data, \hFFF)], 12)

\* inst_jump_with_offset adding VX (the later CHIP-48 variant)
inst_jump_with_offset_vx(self) ==
    LET offset == V(self, self.vx)
        pc == BitAnd(self.instruction_data, \hFFF) + offset
    IN  Ok([self EXCEPT !.program_counter = pc],
           IF BitAnd(self.instruction_data, \h0F00) # BitAnd(pc, \h0F00) THEN 24 ELSE 22)

\* bnnn
inst_jump_with_offset(self) ==
    LET offset == V(self, 0)
        pc == BitAnd(self.instruction_data, \hFFF) + offset
    IN  Ok([self EXCEPT !.program_counter = pc],
           IF BitAnd(self.instruction_data, \h0F00) # BitAnd(pc, \h0F00) THEN 24 ELSE 22)

\* inst_random looking up the table before stepping the seed
inst_random_stale_seed(self) ==
    LET seed == self.random
        rand_addr == 256 + BitAnd(\hFF, seed)
        v0 == self.bytes[rand_addr]
        v1 == WrapAdd8(Shr(seed, 8) % 256, v0)
        rand_val == WrapAdd8(v1 \div 2, v1)
    IN  Ok([self EXCEPT !.random = BitAnd(WrapAdd16(seed, 1), \hFF) + rand_val * 256,
                        !.bytes = write_byte(self.bytes,
                                             BitAnd(rand_val,
                                                    BitAnd(self.instruction_data, \hFF) % 256),
                                             var_addr + self.vx)],
           36)

\* cxnn
inst_random(self) ==
    LET seed == WrapAdd16(self.random, 1)
        rand_addr == 256 + BitAnd(\hFF, seed)
        v0 == self.bytes[rand_addr]
        v1 == WrapAdd8(Shr(seed, 8) % 256, v0)
        rand_val == WrapAdd8(v1 \div 2, v1)
    IN  Ok([self EXCEPT !.random = BitAnd(seed, \hFF) + rand_val * 256,
                        !.bytes = write_byte(self.bytes,
                                             BitAnd(rand_val,
                                                    BitAnd(self.instruction_data, \hFF) % 256),
                                             var_addr + self.vx)],
           36)

\* dxyn: the `for (idx, byte) in sprite.iter().enumerate()` loop, from idx on;
\* `work` is the view of m at work_addr
\* ShiftLoop keeping one work byte a row
RECURSIVE ShiftLoopPacked(_, _, _, _)
ShiftLoopPacked(m, sprite, idx, x_bit_offset) ==
    IF idx >= SliceLen(sprite) THEN m
    ELSE ShiftLoopPacked([m EXCEPT
                        ![work_addr + idx] = Shr(sprite[idx], x_bit_offset),
                        ![work_addr + idx + 1] =
                            IF x_bit_offset = 0 THEN \h0
                            ELSE Shl8(sprite[idx], 8 - x_bit_offset)],
                   sprite, idx + 1, x_bit_offset)

RECURSIVE ShiftLoop(_, _, _, _)
ShiftLoop(m, sprite, idx, x_bit_offset) ==
    IF idx >= SliceLen(sprite) THEN m
    ELSE ShiftLoop([m EXCEPT
                        ![work_addr + idx * 2] = Shr(sprite[idx], x_bit_offset),
                        ![work_addr + idx * 2 + 1] =
                            IF x_bit_offset = 0 THEN \h0
                            ELSE Shl8(sprite[idx], 8 - x_bit_offset)],
                   sprite, idx + 1, x_bit_offset)

\* inst_draw_sprite leaving I after the rows it has read
inst_draw_sprite_moves_i(self) ==
    LET x_bit_offset == BitAnd(V(self, self.vx), \h7)
        rows == BitAnd(self.instruction_data, \hF)
    IN  IF ~SliceOk(self.bytes, self.i, rows) THEN Panic(self)
        ELSE
            LET sprite == get_ro_slice(self.bytes, self.i, rows)
            IN  Ok([self EXCEPT !.bytes = ShiftLoop(self.bytes, sprite, 0, x_bit_offset),
                                !.i = self.i + rows,
                                !.state = "WaitInterrupt",
                                !.instruction = "inst_draw_sprite_pt2"],
                   26 + 10 * rows * x_bit_offset + 7 * rows)

\* inst_draw_sprite waiting for the interrupt with itself still the pending handler
inst_draw_sprite_no_pt2(self) ==
    LET x_bit_offset == BitAnd(V(self, self.vx), \h7)
        rows == BitAnd(self.instruction_data, \hF)
    IN  IF ~SliceOk(self.bytes, self.i, rows) THEN Panic(self)
        ELSE
            LET sprite == get_ro_slice(self.bytes, self.i, rows)
            IN  Ok([self EXCEPT !.bytes = ShiftLoop(self.bytes, sprite, 0, x_bit_offset),
                                !.state = "WaitInterrupt"],
                   26 + 10 * rows * x_bit_offset + 7 * rows)

\* dxyn
inst_draw_sprite(self) ==
    LET x_bit_offset == BitAnd(V(self, self.vx), \h7)
        rows == BitAnd(self.instruction_data, \hF)
    IN  IF ~SliceOk(self.bytes, self.i, rows) THEN Panic(self)
        ELSE
            LET sprite == get_ro_slice(self.bytes, self.i, rows)
            IN  Ok([self EXCEPT !.bytes = ShiftLoop(self.bytes, sprite, 0, x_bit_offset),
                                !.state = "WaitInterrupt",
                                !.instruction = "inst_draw_sprite_pt2"],
                   26 + 10 * rows * x_bit_offset + 7 * rows)

\* BlitLoop setting the sprite's pixels instead of flipping them
RECURSIVE BlitLoopOr(_, _, _, _)
BlitLoopOr(acc, work, idx, draw_addr) ==
    IF idx >= SliceLen(work) THEN acc
    ELSE
        LET this_addr == draw_addr + (idx \div 2) * \h8 + (idx % 2)
        IN  IF this_addr >= \h100
            THEN BlitLoopOr(acc, work, idx + 1, draw_addr)
            ELSE IF idx % 2 = 1 /\ BitAnd(this_addr, \h3F) = 0
            THEN BlitLoopOr(acc, work, idx + 1, draw_addr)
            ELSE
                LET old == acc.m[display_addr + this_addr]
                    hit == BitAnd(old, work[idx]) # \h0
                IN  BlitLoopOr(
                        [m |-> [acc.m EXCEPT ![display_addr + this_addr] =
                                    BitOr(old, work[idx])],
                         collision_flag |-> IF hit THEN 1 ELSE acc.collision_flag,
                         dur |-> acc.dur + (IF hit THEN 2 ELSE 0)
                                         + (IF idx % 2 = 0 THEN 17 ELSE 8)],
                        work, idx + 1, draw_addr)

\* BlitLoop taking any two non-blank bytes for a collision
RECURSIVE BlitLoopByteCollision(_, _, _, _)
BlitLoopByteCollision(acc, work, idx, draw_addr) ==
    IF idx >= SliceLen(work) THEN acc
    ELSE
        LET this_addr == draw_addr + (idx \div 2) * \h8 + (idx % 2)
        IN  IF this_addr >= \h100
            THEN BlitLoopByteCollision(acc, work, idx + 1, draw_addr)
            ELSE IF idx % 2 = 1 /\ BitAnd(this_addr, \h3F) = 0
            THEN BlitLoopByteCollision(acc, work, idx + 1, draw_addr)
            ELSE
                LET old == acc.m[display_addr + this_addr]
                    hit == old # \h0 /\ work[idx] # \h0
                IN  BlitLoopByteCollision(
                        [m |-> [acc.m EXCEPT ![display_addr + this_addr] =
                                    BitXor(old, work[idx])],
                         collision_flag |-> IF hit THEN 1 ELSE acc.collision_flag,
                         dur |-> acc.dur + (IF hit THEN 2 ELSE 0)
                                         + (IF idx % 2 = 0 THEN 17 ELSE 8)],
                        work, idx + 1, draw_addr)

\* dxyn (after the interrupt): the `for (idx, byte) in work.iter().enumerate()`
\* loop, from idx on; acc is [m, collision_flag, dur], `vram` the view of acc.m at
\* display_addr, of length 0x100
RECURSIVE BlitLoop(_, _, _, _)
BlitLoop(acc, work, idx, draw_addr) ==
    IF idx >= SliceLen(work) THEN acc
    ELSE
        LET this_addr == draw_addr + (idx \div 2) * \h8 + (idx % 2)
        IN  IF this_addr >= \h100
            THEN BlitLoop(acc, work, idx + 1, draw_addr)
            ELSE IF idx % 2 = 1 /\ BitAnd(this_addr, \h3F) = 0
            THEN BlitLoop(acc, work, idx + 1, draw_addr)
            ELSE
                LET old == acc.m[display_addr + this_addr]
                    hit == BitAnd(old, work[idx]) # \h0
                IN  BlitLoop(
                        [m |-> [acc.m EXCEPT ![display_addr + this_addr] =
                                    BitXor(old, work[idx])],
                         collision_flag |-> IF hit THEN 1 ELSE acc.collision_flag,
                         dur |-> acc.dur + (IF hit THEN 2 ELSE 0)
                                         + (IF idx % 2 = 0 THEN 17 ELSE 8)],
                        work, idx + 1, draw_addr)

\* inst_draw_sprite_pt2 saving the collision flag in VE
inst_draw_sprite_pt2_flag_in_ve(self) ==
    LET vx_val == BitAnd(\h3F, V(self, self.vx))
        vy_val == BitAnd(\h1F, V(self, self.vy))
        rows == BitAnd(\hF, self.instruction_data)
        draw_addr == (vx_val \div 8) + vy_val * 8
        work == get_ro_slice(self.bytes, work_addr, rows * 2)
        done == BlitLoop([m |-> self.bytes, collision_flag |-> 0, dur |-> 12],
                         work, 0, draw_addr)
    IN  Ok([self EXCEPT !.bytes = write_byte(done.m, done.collision_flag, var_addr + \hE)],
           done.dur)

\* dxyn (after the interrupt)
inst_draw_sprite_pt2(self) ==
    LET vx_val == BitAnd(\h3F, V(self, self.vx))
        vy_val == BitAnd(\h1F, V(self, self.vy))
        rows == BitAnd(\hF, self.instruction_data)
        draw_addr == (vx_val \div 8) + vy_val * 8
        work == get_ro_slice(self.bytes, work_addr, rows * 2)
        done == BlitLoop([m |-> self.bytes, collision_flag |-> 0, dur |-> 12],
                         work, 0, draw_addr)
    IN  Ok([self EXCEPT !.bytes = write_byte(done.m, done.collision_flag, var_addr + \hF)],
           done.dur)

\* ex9e; key is what Input::read_key returned: None, Some(Err(e)) or Some(Ok(key))
inst_skip_key_eq(self, key) ==
    LET x == V(self, self.vx)
    IN  IF key.kind = "None" THEN Ok(self, 14)
        ELSE IF key.kind = "Err" THEN Err(self)
        ELSE IF x = key.key
        THEN Ok([self EXCEPT !.program_counter = self.program_counter + 2], 18)
        ELSE Ok(self, 14)

\* inst_skip_key_ne taking no key for a key that is down
inst_skip_key_ne_needs_key(self, key) ==
    LET x == V(self, self.vx)
    IN  IF key.kind = "None" THEN Ok(self, 14)
        ELSE IF key.kind = "Err" THEN Err(self)
        ELSE IF x = key.key THEN Ok(self, 14)
        ELSE Ok([self EXCEPT !.program_counter = self.program_counter + 2], 18)

\* exa1
inst_skip_key_ne(self, key) ==
    LET x == V(self, self.vx)
    IN  IF key.kind = "None"
        THEN Ok([self EXCEPT !.program_counter = self.program_counter + 2], 18)
        ELSE IF key.kind = "Err" THEN Err(self)
        ELSE IF x = key.key THEN Ok(self, 14)
        ELSE Ok([self EXCEPT !.program_counter = self.program_counter + 2], 18)

\* inst_get_timer reading the tone timer
inst_get_timer_tone(self) ==
    Ok([self EXCEPT !.bytes = write_byte(self.bytes, self.tone_timer,
                                         var_addr + self.vx)], 10)

\* fx07
inst_get_timer(self) ==
    Ok([self EXCEPT !.bytes = write_byte(self.bytes, self.general_timer,
                                         var_addr + self.vx)], 10)

\* fx15
inst_set_timer(self) ==
    Ok([self EXCEPT !.general_timer = V(self, self.vx)], 10)

\* inst_add_x_to_i with one cost for every addition
inst_add_x_to_i_flat(self, oc) ==
    LET x == V(self, self.vx)
        old_i == self.i
        new_i == WrapAdd16(old_i, x)
    IN  IF old_i + x > 65535 /\ oc THEN Panic(self)
        ELSE Ok([self EXCEPT !.i = new_i], 16)

\* fx1e; oc: the build checks arithmetic overflow (`self.i += vx`)
inst_add_x_to_i(self, oc) ==
    LET x == V(self, self.vx)
        old_i == self.i
        new_i == WrapAdd16(old_i, x)
    IN  IF old_i + x > 65535 /\ oc THEN Panic(self)
        ELSE Ok([self EXCEPT !.i = new_i],
                IF BitAnd(old_i, \hFF00) = BitAnd(new_i, \hFF00) THEN 16 ELSE 22)

\* fx29
inst_load_char(self) ==
    LET ch == BitAnd(\hF, V(self, self.vx))
    IN  IF ~SliceOk(self.bytes, \h8100 + ch, 1) THEN Panic(self)
        ELSE Ok([self EXCEPT !.i = \h8100 + self.bytes[\h8100 + ch]], 20)

\* inst_x_to_bcd storing the ones digit first
inst_x_to_bcd_ones_first(self) ==
    LET input == V(self, self.vx)
        o0 == input \div 100
        o1 == (input % 100) \div 10
        o2 == (input % 100) % 10
    IN  IF ~SliceOk(self.bytes, self.i, 3) THEN Panic(self)
        ELSE Ok([self EXCEPT !.bytes = write(self.bytes, Arr(<<o2, o1, o0>>), self.i, 3)],
                84 + 16 * (o0 + o1 + o2))

\* fx33
inst_x_to_bcd(self) ==
    LET input == V(self, self.vx)
        o0 == input \div 100
        o1 == (input % 100) \div 10
        o2 == (input % 100) % 10
    IN  IF ~SliceOk(self.bytes, self.i, 3) THEN Panic(self)
        ELSE Ok([self EXCEPT !.bytes = write(self.bytes, Arr(<<o0, o1, o2>>), self.i, 3)],
                84 + 16 * (o0 + o1 + o2))

\* inst_save_v_at_i leaving I where it was
inst_save_v_at_i_keep_i(self) ==
    LET v == get_ro_slice(self.bytes, var_addr, 1 + self.vx)
    IN  IF ~SliceOk(self.bytes, self.i, SliceLen(v)) THEN Panic(self)
        ELSE Ok([self EXCEPT !.bytes = write(self.bytes, v, self.i, SliceLen(v))],
                14 + 14 * (1 + self.vx) + 4)

\* fx55
inst_save_v_at_i(self) ==
    LET v == get_ro_slice(self.bytes, var_addr, 1 + self.vx)
    IN  IF ~SliceOk(self.bytes, self.i, SliceLen(v)) THEN Panic(self)
        ELSE Ok([self EXCEPT !.bytes = write(self.bytes, v, self.i, SliceLen(v)),
                             !.i = self.i + self.vx + 1],
                14 + 14 * (1 + self.vx) + 4)

\* fx65
inst_load_v_at_i(self) ==
    IF ~SliceOk(self.bytes, self.i, 1 + self.vx) THEN Panic(self)
    ELSE
        LET v == get_ro_slice(self.bytes, self.i, 1 + self.vx)
        IN  Ok([self EXCEPT !.bytes = write(self.bytes, v, var_addr, SliceLen(v)),
                            !.i = self.i + self.vx + 1],
               14 + 14 * (1 + self.vx) + 4)

---------------------------------------------------------------------------
(* interpreter.rs: call, cycle, interrupt *)

\* the handler behind the function pointer self.instruction
Handler(name, self, key, oc) ==
    CASE name = "inst_clear_screen" -> inst_clear_screen(self)
      [] name = "inst_ret" -> inst_ret(self, oc)
      [] name = "inst_branch" -> inst_branch(self)
      [] name = "inst_subroutine" -> inst_subroutine(self, oc)
      [] name = "inst_skip_vx_eq" -> inst_skip_vx_eq(self)
      [] name = "inst_skip_vx_ne" -> inst_skip_vx_ne(self)
      [] name = "inst_x_eq_y" -> inst_x_eq_y(self)
      [] name = "inst_load_vx" -> inst_load_vx(self)
      [] name = "inst_add_to_vx" -> inst_add_to_vx(self)
      [] name = "inst_load_x_with_y" -> inst_load_x_with_y(self)
      [] name = "inst_x_or_with_y" -> inst_x_or_with_y(self)
      [] name = "inst_x_and_with_y" -> inst_x_and_with_y(self)
      [] name = "inst_x_xor_with_y" -> inst_x_xor_with_y(self)
      [] name = "inst_x_add_y" -> inst_x_add_y(self)
      [] name = "inst_x_minus_y" -> inst_x_minus_y(self)
      [] name = "inst_rshift_y_load_x" -> inst_rshift_y_load_x(self)
      [] name = "inst_y_minus_x" -> inst_y_minus_x(self)
      [] name = "inst_lshift_y_load_x" -> inst_lshift_y_load_x(self)
      [] name = "inst_x_ne_y" -> inst_x_ne_y(self)
      [] name = "inst_set_i" -> inst_set_i(self)
      [] name = "inst_jump_with_offset" -> inst_jump_with_offset(self)
      [] name = "inst_random" -> inst_random(self)
      [] name = "inst_draw_sprite" -> inst_draw_sprite(self)
      [] name = "inst_draw_sprite_pt2" -> inst_draw_sprite_pt2(self)
      [] name = "inst_skip_key_eq" -> inst_skip_key_eq(self, key)
      [] name = "inst_skip_key_ne" -> inst_skip_key_ne(self, key)
      [] name = "inst_get_timer" -> inst_get_timer(self)
      [] name = "inst_set_timer" -> inst_set_timer(self)
      [] name = "inst_add_x_to_i" -> inst_add_x_to_i(self, oc)
      [] name = "inst_load_char" -> inst_load_char(self)
      [] name = "inst_x_to_bcd" -> inst_x_to_bcd(self)
      [] name = "inst_save_v_at_i" -> inst_save_v_at_i(self)
      [] name = "inst_load_v_at_i" -> inst_load_v_at_i(self)

\* call the most recently-decoded instruction
\* call setting the generic next state after the handler has run
call_state_last(self, key, oc) ==
    IF self.instruction = "None" THEN Panic([self EXCEPT !.state = "FetchDecode"])
    ELSE [Handler(self.instruction, self, key, oc) EXCEPT !.state = "FetchDecode"]

call(self, key, oc) ==
    LET s1 == [self EXCEPT !.state = "FetchDecode"]
    IN  IF self.instruction = "None" THEN Panic(s1)
        ELSE Handler(self.instruction, s1, key, oc)

\* cycle running the pending handler without waiting for the interrupt
cycle_no_wait(self, key, oc) ==
    CASE self.state = "FetchDecode" -> fetch_and_decode(self)
      [] self.state = "Execute" -> call(self, key, oc)
      [] self.state = "WaitInterrupt" -> call(self, key, oc)

\* step the interpreter forward one state
cycle(self, key, oc) ==
    CASE self.state = "FetchDecode" -> fetch_and_decode(self)
      [] self.state = "Execute" -> call(self, key, oc)
      [] self.state = "WaitInterrupt" -> Ok(self, 1)

\* interrupt dropping the instruction that was fetched and not yet executed
interrupt_drops_fetched(self, draw_ok) ==
    LET s1 == [self EXCEPT !.random = WrapAdd16(self.random, 1)]
        s2 == IF s1.general_timer > 0
              THEN [s1 EXCEPT !.general_timer = s1.general_timer - 1] ELSE s1
        d2 == IF s1.general_timer > 0 THEN 807 + 1024 + 8 ELSE 807 + 1024
        s3 == IF s2.tone_timer > 0
              THEN [s2 EXCEPT !.tone_timer = s2.tone_timer - 1] ELSE s2
        dur == IF s2.tone_timer > 0 THEN d2 + 4 ELSE d2
    IN  IF ~SliceOk(self.bytes, self.display_pointer, \h100) THEN Panic(s3)
        ELSE IF ~draw_ok THEN Err(s3)
        ELSE IF s3.state = "WaitInterrupt"
        THEN Ok([s3 EXCEPT !.state = "Execute"], dur)
        ELSE Ok([s3 EXCEPT !.state = "FetchDecode"], dur)

\* interrupt resuming at the fetch
interrupt_no_resume(self, draw_ok) ==
    LET s1 == [self EXCEPT !.random = WrapAdd16(self.random, 1)]
        s2 == IF s1.general_timer > 0
              THEN [s1 EXCEPT !.general_timer = s1.general_timer - 1] ELSE s1
        d2 == IF s1.general_timer > 0 THEN 807 + 1024 + 8 ELSE 807 + 1024
        s3 == IF s2.tone_timer > 0
              THEN [s2 EXCEPT !.tone_timer = s2.tone_timer - 1] ELSE s2
        dur == IF s2.tone_timer > 0 THEN d2 + 4 ELSE d2
    IN  IF ~SliceOk(self.bytes, self.display_pointer, \h100) THEN Panic(s3)
        ELSE IF ~draw_ok THEN Err(s3)
        ELSE IF s3.state = "WaitInterrupt"
        THEN Ok([s3 EXCEPT !.state = "FetchDecode"], dur)
        ELSE Ok(s3, dur)

\* interrupt charging for the timers whether or not they run
interrupt_flat_cost(self, draw_ok) ==
    LET s1 == [self EXCEPT !.random = WrapAdd16(self.random, 1)]
        s2 == IF s1.general_timer > 0
              THEN [s1 EXCEPT !.general_timer = s1.general_timer - 1] ELSE s1
        s3 == IF s2.tone_timer > 0
              THEN [s2 EXCEPT !.tone_timer = s2.tone_timer - 1] ELSE s2
        dur == 807 + 1024 + 8 + 4
    IN  IF ~SliceOk(self.bytes, self.display_pointer, \h100) THEN Panic(s3)
        ELSE IF ~draw_ok THEN Err(s3)
        ELSE IF s3.state = "WaitInterrupt"
        THEN Ok([s3 EXCEPT !.state = "Execute"], dur)
        ELSE Ok(s3, dur)

\* interrupt stepping the seed only while the interpreter is not waiting
interrupt_seed_when_running(self, draw_ok) ==
    LET s1 == IF self.state = "WaitInterrupt" THEN self
              ELSE [self EXCEPT !.random = WrapAdd16(self.random, 1)]
        s2 == IF s1.general_timer > 0
              THEN [s1 EXCEPT !.general_timer = s1.general_timer - 1] ELSE s1
        d2 == IF s1.general_timer > 0 THEN 807 + 1024 + 8 ELSE 807 + 1024
        s3 == IF s2.tone_timer > 0
              THEN [s2 EXCEPT !.tone_timer = s2.tone_timer - 1] ELSE s2
        dur == IF s2.tone_timer > 0 THEN d2 + 4 ELSE d2
    IN  IF ~SliceOk(self.bytes, self.display_pointer, \h100) THEN Panic(s3)
        ELSE IF ~draw_ok THEN Err(s3)
        ELSE IF s3.state = "WaitInterrupt"
        THEN Ok([s3 EXCEPT !.state = "Execute"], dur)
        ELSE Ok(s3, dur)

\* external interrupt; draw_ok: Display::draw returned Ok
interrupt(self, draw_ok) ==
    LET s1 == [self EXCEPT !.random = WrapAdd16(self.random, 1)]
        s2 == IF s1.general_timer > 0
              THEN [s1 EXCEPT !.general_timer = s1.general_timer - 1] ELSE s1
        d2 == IF s1.general_timer > 0 THEN 807 + 1024 + 8 ELSE 807 + 1024
        s3 == IF s2.tone_timer > 0
              THEN [s2 EXCEPT !.tone_timer = s2.tone_timer - 1] ELSE s2
        dur == IF s2.tone_timer > 0 THEN d2 + 4 ELSE d2
    IN  IF ~SliceOk(self.bytes, self.display_pointer, \h100) THEN Panic(s3)
        ELSE IF ~draw_ok THEN Err(s3)
        ELSE IF s3.state = "WaitInterrupt"
        THEN Ok([s3 EXCEPT !.state = "Execute"], dur)
        ELSE Ok(s3, dur)

---------------------------------------------------------------------------
(* The collaborators *)

\* the keys the Input collaborator is seen to report
Keys == {\h0, \h4, \hF}

\* what Input::read_key may return
KeyResults ==
    {[kind |-> "None"], [kind |-> "Err"]} \cup {[kind |-> "Key", key |-> k] : k \in Keys}

\* read_key is called by the two key handlers only
ReadsKey(self) ==
    self.state = "Execute" /\ self.instruction \in {"inst_skip_key_eq", "inst_skip_key_ne"}

\* the call made did not read the key source
NotRead == [kind |-> "NotRead"]

KeysFor(self) == IF ReadsKey(self) THEN KeyResults ELSE {[kind |-> "None"]}

\* the handlers whose u16 arithmetic can overflow: a checked build panics, an
\* unchecked build wraps
ChecksFor(self) ==
    IF /\ self.state = "Execute"
       /\ self.instruction \in {"inst_subroutine", "inst_ret", "inst_add_x_to_i"}
    THEN BOOLEAN
    ELSE {TRUE}

---------------------------------------------------------------------------
(* The programs loaded *)

\* the two bytes of an instruction word
W(word) == <<word \div 256, word % 256>>

\* one instruction of every decoded kind, and words no handler matches
DecodedWords ==
    {\h00E0, \h00EE, \h1202, \h2204, \h3000, \h3012, \h4000, \h4012, \h5120, \h6A37,
     \h7A05, \h8AB0, \h8AB1, \h8AB2, \h8AB3, \h8AB4, \h8AB5, \h8AB6, \h8AB7, \h8ABE,
     \h9120, \hA22A, \hB204, \hC2FF, \hD125, \hE09E, \hE0A1, \hF107, \hF115, \hF11E,
     \hF129, \hF133, \hF155, \hF165}

UnknownWords ==
    {\h0000, \h0123, \h00E1, \h0FFF, \h8AB8, \h8ABD, \h8ABF, \hE000, \hE09F, \hEFA2,
     \hF100, \hF10A, \hF118, \hFFFF}

\* a register load followed by one instruction word
WordRoms == {W(\h6A81) \o W(w) : w \in DecodedWords \cup UnknownWords}

\* sprite rows: the row of test_dxyn_pt2's colliding pixel, then its sprite
SpriteData == <<\h80, \hF0, \h78, \h3C, \h1E, \h0F, \hFF, \h01,
                \hAA, \h55, \hC3, \h18, \h81, \h7E, \h10, \h08>>

SpriteX == {0, 4, 58, 196}
SpriteY == {4, 62}
SpriteRows == {0, 1, 5, 15}
RedrawRows == {1, 5, 15}

\* V0 = x; V1 = y; I = 0x210; draw n1 rows at (V0, V1); I = 0x210 + s;
\* draw n rows at (V0, V1); the sprite rows at 0x210
DrawRom(x, y, n1, s, n) ==
    W(\h6000 + x) \o W(\h6100 + y) \o W(\hA210) \o W(\hD010 + n1)
    \o W(\hA210 + s) \o W(\hD010 + n) \o W(0) \o W(0) \o SpriteData

\* V0 = x; V1 = y; I = 0x210 + s; draw n rows at (V0, V1) twice
TwiceRom(x, y, s, n) ==
    W(\h6000 + x) \o W(\h6100 + y) \o W(\hA210 + s) \o W(\hD010 + n)
    \o W(\hD010 + n) \o W(0) \o W(0) \o W(0) \o SpriteData

\* the colliding pixel of test_dxyn_pt2 drawn first, then a sprite over it; one
\* sprite drawn twice; and a pixel drawn first, then a sprite that misses it
DrawRoms ==
    {DrawRom(x, y, 1, 1, n) : x \in SpriteX, y \in SpriteY, n \in SpriteRows}
    \cup {DrawRom(x, y, n, 0, n) : x \in SpriteX, y \in SpriteY, n \in RedrawRows}
    \cup {DrawRom(x, 4, 1, 9, n) : x \in SpriteX, n \in {1, 5}}
    \cup {TwiceRom(x, 4, s, n) : x \in {4, 58}, s \in {5, 16}, n \in {0, 3}}

\* register values: the operands of test_x_add_y_carry and test_x_add_y, equal
\* operands, and operands with each of bit 0 and bit 7 set and clear
AluPairs == {<<\hED, \h4B>>, <<\h2D, \h4B>>, <<\h4B, \h4B>>, <<\h00, \hFF>>, <<\h80, \h01>>}

\* 8xy4, 8xy5, 8xy6, 8xy7 and 8xyE on VA and VB in both orders and with VF as
\* either operand or both, 8xy4 with x = y; the four skips on VA (and VB)
AluWords ==
    {\h8000 + xy * 16 + n :
        xy \in {\hAB, \hBA, \hAF, \hFA, \hFF}, n \in {\h4, \h5, \h6, \h7, \hE}}
    \cup {\h8AA4, \h3A4B, \h4A4B, \h5AB0, \h9AB0}

\* VA = a; VB = b; VF = b; then the word
AluRoms ==
    {W(\h6A00 + p[1]) \o W(\h6B00 + p[2]) \o W(\h6F00 + p[2]) \o W(w) :
        p \in AluPairs, w \in AluWords}

\* a subroutine that calls a second one; both return
CallRom ==
    W(\h2206) \o W(\h6A01) \o W(\h0000) \o W(\h220A) \o W(\h00EE) \o W(\h00EE)

\* the timer set from V0, then read back in a loop
TimerRoms == {W(\h6000 + n) \o W(\hF015) \o W(\hF107) \o W(\h1204) : n \in {0, 2}}

\* the program of the tests' fixture (test_with)
FixtureRom == W(\h00E0) \o W(\hA22A) \o W(\h600C)

Roms == WordRoms \cup DrawRoms \cup TimerRoms \cup AluRoms \cup {FixtureRom, CallRom}

---------------------------------------------------------------------------
(* The system *)

\* no DXYN has completed on the framebuffer as it is now
NoDraw == [rows |-> 0, i |-> 0, x |-> 0, y |-> 0, sprite |-> <<>>, vram |-> <<>>]

\* no FX55 has run, or memory was written over what the last one stored
NoSave == [at |-> 0, regs |-> <<>>]

\* no DXYN has begun
NoPending == [frame |-> 0, vram |-> <<>>]

\* main_loop has not been called
NotRunning ==
    /\ at = "idle"
    /\ frame_count = 0
    /\ frame = 0
    /\ remaining_sleep = 0
    /\ now = 0
    /\ frame_end = 0
    /\ inst_end = 0
    /\ clock = 0
    /\ slept = 0
    /\ warnings = 0
    /\ cycles = 0
    /\ slow = 0

\* MemoryMap::write has not been called from outside the interpreter
NoWrite == [data |-> <<>>, addr |-> 0, len |-> 0]

\* the interpreter of a test: Chip8Interpreter::new and load_program(rom), then
\* the fields a test sets by hand (i.random = ..., i.general_timer = ...)
Fixture(rom, seed, general, tone) ==
    /\ LoadOk(NewMemory, rom)
    /\ bytes = load_program(NewMemory, rom)
    /\ stack_pointer = stack_addr
    /\ instruction = "None"
    /\ instruction_data = \h0000
    /\ program_counter = program_addr
    /\ vx = \h0000
    /\ vy = \h0000
    /\ tone_timer = tone
    /\ general_timer = general
    /\ random = seed
    /\ i = \h0000
    /\ display_pointer = display_addr
    /\ state = "FetchDecode"
    /\ ret = 0
    /\ op = "new"
    /\ fault = "none"
    /\ drawn = <<>>
    /\ interrupts = 0
    /\ last_draw = NoDraw
    /\ calls = <<>>
    /\ polled = NotRead
    /\ saved = NoSave
    /\ written = NoWrite
    /\ timer_set = [n |-> general, k |-> 0, by |-> "new"]
    /\ pending = NoPending
    /\ n_calls = 0
    /\ n_rets = 0
    /\ NotRunning

\* Chip8Interpreter::new, then load_program(rom)
New(rom) == Fixture(rom, \h0000, \h00, \h00)

Init == \E rom \in Roms : New(rom)

\* the interpreter after a call
Becomes(self) ==
    /\ bytes' = self.bytes
    /\ stack_pointer' = self.stack_pointer
    /\ instruction' = self.instruction
    /\ instruction_data' = self.instruction_data
    /\ program_counter' = self.program_counter
    /\ vx' = self.vx
    /\ vy' = self.vy
    /\ tone_timer' = self.tone_timer
    /\ general_timer' = self.general_timer
    /\ random' = self.random
    /\ i' = self.i
    /\ display_pointer' = self.display_pointer
    /\ state' = self.state
    /\ ret' = self.ret
    /\ fault' = self.fault

\* the DXYN whose second phase is about to run: its operands, and the framebuffer
\* it finds
ThisDraw ==
    LET rows == BitAnd(instruction_data, \hF)
    IN  [rows |-> rows, i |-> i, x |-> V(Self, vx), y |-> V(Self, vy),
         sprite |-> IF SliceOk(bytes, i, rows) THEN get_ro_slice(bytes, i, rows)
                    ELSE <<>>,
         vram |-> get_ro_slice(bytes, display_addr, \h100)]

\* the 2nnn about to run: the address it is to come back to (the program counter
\* is past the 2nnn already) and the stack pointer it finds
ThisCall == [back |-> program_counter, sp |-> stack_pointer]

\* the FX55 about to run: the address it stores to and V0..VX as it finds them
ThisSave == [at |-> i, regs |-> [k \in 1 .. vx + 1 |-> V(Self, k - 1)]]

\* the FX15 about to run: the value it loads, no interrupt since
ThisTimer == [n |-> V(Self, vx), k |-> 0, by |-> "FX15"]

\* the first phase of the DXYN about to run: the frame of main_loop it runs in (0
\* outside main_loop) and the framebuffer it finds
ThisPending == [frame |-> frame, vram |-> get_ro_slice(bytes, display_addr, \h100)]

\* what a call of cycle() does to the interpreter, and what is seen of it
CycleCall(key, oc) ==
    /\ Becomes(cycle(Self, key, oc))
    /\ polled' = IF ReadsKey(Self) THEN key ELSE NotRead
    /\ op' = "cycle"
    /\ last_draw' =
          IF state = "Execute" /\ instruction = "inst_draw_sprite_pt2" THEN ThisDraw
          ELSE IF \E a \in 0 .. \hFF : bytes'[display_addr + a] # bytes[display_addr + a]
          THEN NoDraw
          ELSE last_draw
    /\ calls' =
          IF state = "Execute" /\ instruction = "inst_subroutine"
          THEN Append(calls, ThisCall)
          ELSE IF state = "Execute" /\ instruction = "inst_ret" /\ calls # <<>>
          THEN SubSeq(calls, 1, Len(calls) - 1)
          ELSE calls
    /\ saved' =
          IF state = "Execute" /\ instruction = "inst_save_v_at_i" THEN ThisSave
          ELSE IF \E k \in 1 .. Len(saved.regs) :
                      bytes'[saved.at + k - 1] # bytes[saved.at + k - 1]
          THEN NoSave
          ELSE saved
    /\ timer_set' =
          IF state = "Execute" /\ instruction = "inst_set_timer" THEN ThisTimer
          ELSE timer_set
    /\ pending' =
          IF state = "Execute" /\ instruction = "inst_draw_sprite" THEN ThisPending
          ELSE pending
    /\ n_calls' =
          IF state = "Execute" /\ instruction = "inst_subroutine" /\ fault' = "none"
          THEN n_calls + 1
          ELSE n_calls
    /\ n_rets' =
          IF state = "Execute" /\ instruction = "inst_ret" /\ fault' = "none"
          THEN n_rets + 1
          ELSE n_rets
    /\ UNCHANGED <<drawn, interrupts, written>>

\* a call of cycle()
Cycle ==
    /\ fault = "none"
    /\ \E key \in KeysFor(Self), oc \in ChecksFor(Self) : CycleCall(key, oc)
    /\ UNCHANGED loop_vars

\* what a call of interrupt() does to the interpreter, and what is seen of it
InterruptCall(draw_ok) ==
    /\ Becomes(interrupt(Self, draw_ok))
    /\ op' = "interrupt"
    /\ drawn' = IF SliceOk(bytes, display_pointer, \h100)
                THEN <<display_pointer, \h100>>
                ELSE drawn
    /\ interrupts' = interrupts + 1
    /\ polled' = NotRead
    /\ timer_set' = [timer_set EXCEPT !.k = @ + 1]
    /\ UNCHANGED <<last_draw, calls, saved, written, pending, n_calls, n_rets>>

\* a call of interrupt()
Interrupt ==
    /\ fault = "none"
    /\ interrupts < MaxInterrupts
    /\ \E draw_ok \in BOOLEAN : InterruptCall(draw_ok)
    /\ UNCHANGED loop_vars

Next == Cycle \/ Interrupt

Spec == Init /\ [][Next]_vars

---------------------------------------------------------------------------
(* The interpreter as the unit tests drive it: the same calls, from a fixture *)
(* whose seed and timers were set by hand                                     *)

FixtureSeeds == {\h0000, \h0107, \h1234, \hFFFF}
FixtureGeneral == {0, 1, 8}
FixtureTone == {0, 1, 3}

FixtureRoms ==
    {FixtureRom, W(\hC203), W(\h6003) \o W(\hF015) \o W(\hC1FF),
     DrawRom(4, 4, 1, 1, 5)}

TestInit ==
    \E rom \in FixtureRoms, seed \in FixtureSeeds,
       general \in FixtureGeneral, tone \in FixtureTone :
        Fixture(rom, seed, general, tone)

TestSpec == TestInit /\ [][Next]_vars

---------------------------------------------------------------------------
(* Properties *)

\* the step is a call of cycle() / of interrupt()
CycleStep == fault = "none" /\ op' = "cycle" /\ interrupts' = interrupts
InterruptStep == fault = "none" /\ op' = "interrupt" /\ interrupts' = interrupts + 1

\* the instruction word at the program counter, high byte first
WordAtPc == bytes[program_counter] * 256 + bytes[program_counter + 1]

\* the four nibbles and the low byte of an instruction word
Nibble3(w) == w \div 4096
Nibble2(w) == (w \div 256) % 16
Nibble1(w) == (w \div 16) % 16
Nibble0(w) == w % 16
LowByte(w) == w % 256

\* the words no handler matches
Unknown(w) ==
    \/ Nibble3(w) = 0 /\ w \notin {\h00E0, \h00EE}
    \/ Nibble3(w) = 8 /\ Nibble0(w) \in {\h8, \h9, \hA, \hB, \hC, \hD, \hF}
    \/ Nibble3(w) = 14 /\ LowByte(w) \notin {\h9E, \hA1}
    \/ Nibble3(w) = 15 /\ LowByte(w) \notin {\h07, \h15, \h1E, \h29, \h33, \h55, \h65}

\* a fetch of a word some handler matches
FetchStep ==
    /\ CycleStep
    /\ state = "FetchDecode"
    /\ program_counter + 2 <= CHIP8_RAM_SIZE_BYTES
    /\ ~Unknown(WordAtPc)

\* C1: a cycle() in state FetchDecode on a decodable word reads the big-endian
\* word at program_counter, sets vx to its bits 8-11 and vy to its bits 4-7 (both
\* in 0..15), advances program_counter by exactly 2 and leaves the state Execute.
C1_FetchDecodes ==
    [][FetchStep =>
        /\ fault' = "none"
        /\ instruction_data' = WordAtPc
        /\ vx' = Nibble2(WordAtPc) /\ vx' \in 0 .. 15
        /\ vy' = Nibble1(WordAtPc) /\ vy' \in 0 .. 15
        /\ program_counter' = program_counter + 2
        /\ state' = "Execute"]_vars

C1_Witness ==
    /\ op = "cycle" /\ state = "Execute" /\ fault = "none"
    /\ instruction_data = \h8AB4 /\ vx = 10 /\ vy = 11
    /\ program_counter = \h204

\* C2: fetch-decode reports 40 machine cycles for a word of the 0x0xxx family and
\* 68 for every other word.
C2_FetchCycles ==
    [][FetchStep => ret' = IF Nibble3(WordAtPc) = 0 THEN 40 ELSE 68]_vars

C2_Witness ==
    /\ op = "cycle" /\ state = "Execute" /\ instruction_data = \h00EE /\ ret = 40

\* C3: fetching a word that matches no handler aborts emulation: the word is not
\* skipped, the state does not become Execute for it, and nothing is fetched or
\* executed afterwards.
C3_UnknownAborts ==
    [][/\ (CycleStep /\ state = "FetchDecode"
             /\ program_counter + 2 <= CHIP8_RAM_SIZE_BYTES /\ Unknown(WordAtPc))
          => /\ fault' = "panic"
             /\ state' = "FetchDecode"
             /\ program_counter' = program_counter
             /\ UNCHANGED <<instruction, instruction_data, bytes, stack_pointer, i>>
       /\ fault = "panic" => UNCHANGED vars]_vars

C3_Witness ==
    /\ fault = "panic" /\ op = "cycle" /\ state = "FetchDecode"
    /\ program_counter = \h202 /\ WordAtPc = \h8AB8
    /\ instruction = "inst_load_vx"

\* C4: a cycle() in state Execute that returns ends in state FetchDecode, except
\* the first phase of the sprite draw, which ends in state WaitInterrupt (the
\* state the handler set after call() set FetchDecode).
C4_ExecuteEnds ==
    [][(CycleStep /\ state = "Execute" /\ fault' # "panic") =>
        state' = IF instruction = "inst_draw_sprite" THEN "WaitInterrupt"
                 ELSE "FetchDecode"]_vars

C4_Witness ==
    /\ op = "cycle" /\ state = "WaitInterrupt" /\ fault = "none"
    /\ instruction = "inst_draw_sprite_pt2" /\ instruction_data = \hD015 /\ ret = 261

\* C5: in state WaitInterrupt a cycle() reports 1 machine cycle and changes nothing
\* else, and only interrupt() leaves the state.
C5_WaitCycle ==
    [][/\ (CycleStep /\ state = "WaitInterrupt")
          => /\ ret' = 1
             /\ UNCHANGED <<bytes, stack_pointer, instruction, instruction_data,
                            program_counter, vx, vy, tone_timer, general_timer,
                            random, i, display_pointer, state, fault, drawn>>
       /\ (state = "WaitInterrupt" /\ state' # "WaitInterrupt") => InterruptStep]_vars

C5_Witness ==
    /\ op = "cycle" /\ state = "WaitInterrupt" /\ ret = 1 /\ fault = "none"
    /\ instruction = "inst_draw_sprite_pt2"

\* the DXYN word is the one just before the program counter
DxynBehindPc ==
    /\ Nibble3(instruction_data) = 13
    /\ program_counter >= 2
    /\ bytes[program_counter - 2] * 256 + bytes[program_counter - 1] = instruction_data

C7_InterruptTimers ==
    [][InterruptStep =>
        /\ general_timer' = IF general_timer = 0 THEN 0 ELSE general_timer - 1
        /\ tone_timer' = IF tone_timer = 0 THEN 0 ELSE tone_timer - 1
        /\ general_timer' >= 0 /\ tone_timer' >= 0
        /\ fault' = "none" =>
              ret' = 1831 + (IF general_timer = 0 THEN 0 ELSE 8)
                          + (IF tone_timer = 0 THEN 0 ELSE 4)]_vars

C7_Witness ==
    /\ op = "interrupt" /\ fault = "none" /\ interrupts = 1
    /\ general_timer = 7 /\ tone_timer = 0 /\ ret = 1839

\* C8: every interrupt(), in whatever state it arrives, advances the 16-bit seed
\* by exactly 1, from 0xFFFF to 0; a cycle() changes the seed only when it runs
\* CXNN.
C8_SeedSteps ==
    [][/\ InterruptStep =>
            random' = IF random = \hFFFF THEN 0 ELSE random + 1
       /\ (CycleStep /\ random' # random) =>
            (state = "Execute" /\ instruction = "inst_random")]_vars

C8_Witness ==
    /\ op = "interrupt" /\ random = \h0000 /\ interrupts = 1
    /\ state = "Execute" /\ instruction = "inst_draw_sprite_pt2"

\* the registers the pending instruction names
RegX == bytes[var_addr + vx]
RegY == bytes[var_addr + vy]

\* 2^n
TwoTo(n) == IF n = 0 THEN 1 ELSE IF n = 1 THEN 2 ELSE IF n = 2 THEN 4
            ELSE IF n = 3 THEN 8 ELSE IF n = 4 THEN 16 ELSE IF n = 5 THEN 32
            ELSE IF n = 6 THEN 64 ELSE IF n = 7 THEN 128 ELSE 256

\* C9: the first phase of DXYN writes, for each row k < n of the sprite at I, the
\* byte shifted right by o = VX & 7 to work[2k] and the byte shifted left by 8 - o,
\* cut to 8 bits (0 when o = 0), to work[2k + 1]; it changes no other byte, leaves
\* the state WaitInterrupt and reports 26 + 10*n*o + 7*n machine cycles.
C9_PhaseOne ==
    [][(CycleStep /\ state = "Execute" /\ instruction = "inst_draw_sprite"
            /\ fault' = "none") =>
        LET n == Nibble0(instruction_data)
            o == RegX % 8
        IN  /\ \A k \in 0 .. n - 1 :
                /\ bytes'[work_addr + 2 * k] = bytes[i + k] \div TwoTo(o)
                /\ bytes'[work_addr + 2 * k + 1] =
                      IF o = 0 THEN 0 ELSE (bytes[i + k] * TwoTo(8 - o)) % 256
            /\ \A a \in DOMAIN bytes :
                bytes'[a] # bytes[a] => (a >= work_addr /\ a < work_addr + 2 * n)
            /\ state' = "WaitInterrupt"
            /\ ret' = 26 + 10 * n * o + 7 * n]_vars

C9_Witness ==
    /\ op = "cycle" /\ state = "WaitInterrupt" /\ fault = "none"
    /\ instruction_data = \hD015 /\ RegX = 4 /\ ret = 261
    /\ bytes[work_addr] = \h0F /\ bytes[work_addr + 1] = \h00
    /\ bytes[work_addr + 2] = \h07 /\ bytes[work_addr + 3] = \h80
    /\ bytes[work_addr + 4] = \h03 /\ bytes[work_addr + 5] = \hC0
    /\ bytes[work_addr + 6] = \h01 /\ bytes[work_addr + 7] = \hE0
    /\ bytes[work_addr + 8] = \h00 /\ bytes[work_addr + 9] = \hF0

\* bit k of a byte
Bit(v, k) == (v \div TwoTo(k)) % 2

\* the framebuffer byte work byte j goes to, and whether it is drawn
Target(j) == (RegX % 64) \div 8 + 8 * (RegY % 32) + 8 * (j \div 2) + (j % 2)
Visible(j) ==
    /\ j < 2 * Nibble0(instruction_data)
    /\ Target(j) < 256
    /\ ~(j % 2 = 1 /\ Target(j) % 64 = 0)
Collides(j) ==
    \E k \in 0 .. 7 :
        Bit(bytes[display_addr + Target(j)], k) = 1 /\ Bit(bytes[work_addr + j], k) = 1

\* C10: the second phase of DXYN XORs every visible work byte j into framebuffer
\* byte (VX & 0x3F)/8 + 8*(VY & 0x1F) + 8*(j div 2) + (j mod 2), sets VF to 1 if a
\* set framebuffer bit was cleared and to 0 otherwise, and reports 12 machine
\* cycles plus 17 a visible left byte, 8 a visible right byte, 2 a colliding byte.
C10_PhaseTwo ==
    [][(CycleStep /\ state = "Execute" /\ instruction = "inst_draw_sprite_pt2") =>
        LET drawn_bytes == {j \in 0 .. 29 : Visible(j)}
            hits == {j \in drawn_bytes : Collides(j)}
        IN  /\ \A j \in drawn_bytes : \A k \in 0 .. 7 :
                Bit(bytes'[display_addr + Target(j)], k) =
                    (Bit(bytes[display_addr + Target(j)], k)
                        + Bit(bytes[work_addr + j], k)) % 2
            /\ \A a \in DOMAIN bytes :
                bytes'[a] # bytes[a] =>
                    \/ a = var_addr + 15
                    \/ \E j \in drawn_bytes : a = display_addr + Target(j)
            /\ bytes'[var_addr + 15] = IF hits = {} THEN 0 ELSE 1
            /\ ret' = 12 + 17 * Cardinality({j \in drawn_bytes : j % 2 = 0})
                         + 8 * Cardinality({j \in drawn_bytes : j % 2 = 1})
                         + 2 * Cardinality(hits)]_vars

C10_Witness ==
    /\ op = "cycle" /\ state = "FetchDecode" /\ fault = "none"
    /\ instruction = "inst_draw_sprite_pt2" /\ instruction_data = \hD015
    /\ RegX = 4 /\ RegY = 4 /\ ret = 139 /\ bytes[var_addr + 15] = 1
    /\ bytes[display_addr + \h20] = \h07

\* the pending DXYN draws its left-hand bytes in the last byte column
LastColumn == (RegX % 64) \div 8 = 7

\* C11: in the second phase of DXYN the right-hand byte of a row whose left-hand
\* byte is in the last byte column (x/8 = 7) is never XORed into the framebuffer,
\* whatever the row: the first byte column of every row is left as it was, and a
\* byte whose offset would be 256 or more is skipped without a fault.
C11_EdgeSkipped ==
    [][(CycleStep /\ state = "Execute" /\ instruction = "inst_draw_sprite_pt2") =>
        /\ fault' = "none"
        /\ LastColumn =>
              \A row \in 0 .. 31 :
                  bytes'[display_addr + 8 * row] = bytes[display_addr + 8 * row]
        /\ \A a \in DOMAIN bytes :
              bytes'[a] # bytes[a] => (a = var_addr + 15 \/ a >= display_addr)]_vars

\* a right-hand byte of the sprite at (58, 4) has come back in at the left of row 9
C11_Witness ==
    /\ op = "cycle" /\ state = "FetchDecode" /\ fault = "none"
    /\ instruction = "inst_draw_sprite_pt2" /\ instruction_data = \hD015
    /\ RegX = 58 /\ RegY = 4 /\ i = \h211
    /\ bytes[display_addr + 71] = \h03
    /\ bytes[display_addr + 72] = \hC0

\* the second phase about to run repeats the last completed DXYN: the same I, VX,
\* VY, row count and sprite bytes, on the framebuffer that draw left
SameDrawAgain ==
    /\ state = "Execute" /\ instruction = "inst_draw_sprite_pt2"
    /\ last_draw # NoDraw
    /\ last_draw.rows = Nibble0(instruction_data)
    /\ last_draw.i = i /\ last_draw.x = RegX /\ last_draw.y = RegY
    /\ \A k \in 0 .. last_draw.rows - 1 : last_draw.sprite[k] = bytes[i + k]

\* the first of the two draws lit a pixel: a drawn work byte has a bit that was
\* clear in the framebuffer the first draw found
FirstDrawLit ==
    \E j \in 0 .. 29 :
        /\ Visible(j)
        /\ \E k \in 0 .. 7 :
            Bit(bytes[work_addr + j], k) = 1 /\ Bit(last_draw.vram[Target(j)], k) = 0

C13_CallReturn ==
    [][/\ (CycleStep /\ state = "Execute" /\ instruction = "inst_subroutine"
             /\ fault' = "none")
          => /\ bytes'[stack_pointer] = program_counter \div 256
             /\ bytes'[stack_pointer + 1] = program_counter % 256
             /\ bytes[program_counter - 2] * 256 + bytes[program_counter - 1]
                   = instruction_data
             /\ stack_pointer' = stack_pointer - 2
             /\ program_counter' = instruction_data % 4096
             /\ ret' = 26
       /\ (CycleStep /\ state = "Execute" /\ instruction = "inst_ret"
             /\ fault' = "none")
          => /\ stack_pointer' = stack_pointer + 2
             /\ program_counter' =
                   bytes[stack_pointer + 2] * 256 + bytes[stack_pointer + 3]
             /\ ret' = 10
             /\ UNCHANGED bytes
             /\ calls # <<>> =>
                   /\ program_counter' = calls[Len(calls)].back
                   /\ stack_pointer' = calls[Len(calls)].sp]_vars

\* both returns of the nested calls are done: back after the first call, the stack
\* pointer where it began, the inner call's return address still below it
C13_Witness ==
    /\ op = "cycle" /\ state = "FetchDecode" /\ fault = "none"
    /\ instruction = "inst_ret" /\ ret = 10 /\ calls = <<>>
    /\ program_counter = \h202 /\ stack_pointer = stack_addr
    /\ bytes[stack_addr] = \h02 /\ bytes[stack_addr + 1] = \h02
    /\ bytes[stack_addr - 2] = \h02 /\ bytes[stack_addr - 1] = \h08

\* a register, by number
Reg(r) == bytes[var_addr + r]

\* the step runs the handler named
Runs(handler) == CycleStep /\ state = "Execute" /\ instruction = handler

\* the step changes no byte of memory but VX and VF
OnlyVxVf ==
    \A a \in DOMAIN bytes :
        bytes'[a] # bytes[a] => (a = var_addr + vx \/ a = var_addr + 15)

\* C14 as stated: 8xy4 sets VX to (VX + VY) mod 256 and VF to 1 if the sum exceeds
\* 0xFF and to 0 otherwise, leaves VY unchanged for x different from y, and costs
\* 44 cycles.
C14_AddAsStated ==
    [][Runs("inst_x_add_y") =>
        /\ Reg(vx)' = (Reg(vx) + Reg(vy)) % 256
        /\ Reg(15)' = IF Reg(vx) + Reg(vy) > 255 THEN 1 ELSE 0
        /\ vx # vy => Reg(vy)' = Reg(vy)
        /\ ret' = 44]_vars

\* C14, amended: 8xy4 sets VF to 1 if VX + VY exceeds 0xFF and to 0 otherwise; for
\* x other than F it sets VX to (VX + VY) mod 256; it changes no other byte (VY is
\* unchanged for y other than x and F); it costs 44 cycles.
C14_Add ==
    [][Runs("inst_x_add_y") =>
        /\ fault' = "none"
        /\ Reg(15)' = IF Reg(vx) + Reg(vy) > 255 THEN 1 ELSE 0
        /\ vx # 15 => Reg(vx)' = (Reg(vx) + Reg(vy)) % 256
        /\ OnlyVxVf
        /\ ret' = 44]_vars

\* 8AB4 with VA = 0xED, VB = 0x4B: VA = 0x38, VF = 1
C14_Witness ==
    /\ op = "cycle" /\ state = "FetchDecode" /\ fault = "none"
    /\ instruction = "inst_x_add_y" /\ instruction_data = \h8AB4
    /\ Reg(10) = \h38 /\ Reg(11) = \h4B /\ Reg(15) = 1 /\ ret = 44

\* C15 as stated: 8xy5 sets VX to (VX - VY) mod 256 and VF to 1 exactly when
\* VX >= VY; 8xy7 sets VX to (VY - VX) mod 256 and VF to 1 exactly when VY >= VX;
\* both cost 44 cycles.
C15_SubtractAsStated ==
    [][/\ Runs("inst_x_minus_y") =>
            /\ Reg(vx)' = (256 + Reg(vx) - Reg(vy)) % 256
            /\ Reg(15)' = IF Reg(vx) >= Reg(vy) THEN 1 ELSE 0
            /\ ret' = 44
       /\ Runs("inst_y_minus_x") =>
            /\ Reg(vx)' = (256 + Reg(vy) - Reg(vx)) % 256
            /\ Reg(15)' = IF Reg(vy) >= Reg(vx) THEN 1 ELSE 0
            /\ ret' = 44]_vars

\* C15, amended: 8xy5 sets VF to 1 exactly when VX >= VY and, for x other than F,
\* VX to (VX - VY) mod 256; 8xy7 sets VF to 1 exactly when VY >= VX and, for x
\* other than F, VX to (VY - VX) mod 256; neither changes another byte; both cost
\* 44 cycles.
C15_Subtract ==
    [][/\ Runs("inst_x_minus_y") =>
            /\ fault' = "none"
            /\ Reg(15)' = IF Reg(vx) >= Reg(vy) THEN 1 ELSE 0
            /\ vx # 15 => Reg(vx)' = (256 + Reg(vx) - Reg(vy)) % 256
            /\ OnlyVxVf
            /\ ret' = 44
       /\ Runs("inst_y_minus_x") =>
            /\ fault' = "none"
            /\ Reg(15)' = IF Reg(vy) >= Reg(vx) THEN 1 ELSE 0
            /\ vx # 15 => Reg(vx)' = (256 + Reg(vy) - Reg(vx)) % 256
            /\ OnlyVxVf
            /\ ret' = 44]_vars

\* 8AB5 with VA = 0x2D, VB = 0x4B: a borrow, VA = 0xE2, VF = 0
C15_Witness ==
    /\ op = "cycle" /\ state = "FetchDecode" /\ fault = "none"
    /\ instruction = "inst_x_minus_y" /\ instruction_data = \h8AB5
    /\ Reg(10) = \hE2 /\ Reg(11) = \h4B /\ Reg(15) = 0 /\ ret = 44

\* the step changes no byte of memory but VX, VY and VF
OnlyVxVyVf ==
    \A a \in DOMAIN bytes :
        bytes'[a] # bytes[a] =>
            (a = var_addr + vx \/ a = var_addr + vy \/ a = var_addr + 15)

\* C16 as stated: 8xy6 stores VY >> 1 into both VX and VY and the old bit 0 of VY
\* into VF; 8xyE stores (VY << 1) mod 256 into both VX and VY and the old bit 7 of
\* VY into VF; both cost 44 cycles.
C16_ShiftAsStated ==
    [][/\ Runs("inst_rshift_y_load_x") =>
            /\ Reg(vx)' = Reg(vy) \div 2
            /\ Reg(vy)' = Reg(vy) \div 2
            /\ Reg(15)' = Reg(vy) % 2
            /\ ret' = 44
       /\ Runs("inst_lshift_y_load_x") =>
            /\ Reg(vx)' = (Reg(vy) * 2) % 256
            /\ Reg(vy)' = (Reg(vy) * 2) % 256
            /\ Reg(15)' = Reg(vy) \div 128
            /\ ret' = 44]_vars

\* C16, amended: 8xy6 stores the old bit 0 of VY into VF and VY >> 1 into VX (x
\* other than F) and into VY (y other than F); 8xyE stores the old bit 7 of VY
\* into VF and (VY << 1) mod 256 into VX (x other than F) and into VY (y other
\* than F); the old VX is not read; no other byte changes; both cost 44 cycles.
C16_Shift ==
    [][/\ Runs("inst_rshift_y_load_x") =>
            /\ fault' = "none"
            /\ Reg(15)' = Reg(vy) % 2
            /\ vx # 15 => Reg(vx)' = Reg(vy) \div 2
            /\ vy # 15 => Reg(vy)' = Reg(vy) \div 2
            /\ OnlyVxVyVf
            /\ ret' = 44
       /\ Runs("inst_lshift_y_load_x") =>
            /\ fault' = "none"
            /\ Reg(15)' = Reg(vy) \div 128
            /\ vx # 15 => Reg(vx)' = (Reg(vy) * 2) % 256
            /\ vy # 15 => Reg(vy)' = (Reg(vy) * 2) % 256
            /\ OnlyVxVyVf
            /\ ret' = 44]_vars

\* 8AB6 with VA = 0xED, VB = 0x4B: VA = VB = 0x25, VF = 1
C16_Witness ==
    /\ op = "cycle" /\ state = "FetchDecode" /\ fault = "none"
    /\ instruction = "inst_rshift_y_load_x" /\ instruction_data = \h8AB6
    /\ Reg(10) = \h25 /\ Reg(11) = \h25 /\ Reg(15) = 1 /\ ret = 44

\* the step leaves memory (the registers with it), I and the stack pointer alone
\* and moves the program counter on by 2 if it skips, reporting the cost given
Skips(cond, cost_skip, cost_stay) ==
    /\ fault' = "none"
    /\ program_counter' = program_counter + (IF cond THEN 2 ELSE 0)
    /\ ret' = IF cond THEN cost_skip ELSE cost_stay
    /\ cost_skip > cost_stay
    /\ UNCHANGED <<bytes, i, stack_pointer>>

\* C17: 3xnn (VX = nn) and 4xnn (VX # nn) add 2 more to program_counter exactly
\* when the condition holds, at 14 cycles against 10; 5xy0 (VX = VY) and 9xy0
\* (VX # VY) likewise at 18 cycles against 14; no register or memory byte changes.
C17_Skips ==
    [][/\ Runs("inst_skip_vx_eq") => Skips(Reg(vx) = LowByte(instruction_data), 14, 10)
       /\ Runs("inst_skip_vx_ne") => Skips(Reg(vx) # LowByte(instruction_data), 14, 10)
       /\ Runs("inst_x_eq_y") => Skips(Reg(vx) = Reg(vy), 18, 14)
       /\ Runs("inst_x_ne_y") => Skips(Reg(vx) # Reg(vy), 18, 14)]_vars

\* 3A4B with VA = 0x4B: the skip is taken
C17_Witness ==
    /\ op = "cycle" /\ state = "FetchDecode" /\ fault = "none"
    /\ instruction = "inst_skip_vx_eq" /\ instruction_data = \h3A4B
    /\ Reg(10) = \h4B /\ program_counter = \h20A /\ ret = 14

\* the key source had a key for the call just made, and it was VX
KeyIsVx == polled'.kind = "Key" /\ polled'.key = Reg(vx)

C19_Random ==
    [][Runs("inst_random") =>
        LET s == (random + 1) % 65536
            b == bytes[256 + (s % 256)]
            v == (s \div 256 + b) % 256
            r == (v \div 2 + v) % 256
        IN  /\ fault' = "none"
            /\ random' = r * 256 + (s % 256)
            /\ \A k \in 0 .. 7 :
                  Bit(Reg(vx)', k) = Bit(r, k) * Bit(LowByte(instruction_data), k)
            /\ \A a \in DOMAIN bytes : bytes'[a] # bytes[a] => a = var_addr + vx
            /\ ret' = 36]_vars

\* C203 from seed 0x0107 on the stock image: seed 0x8208, V2 = 0x02
C19_Witness ==
    /\ op = "cycle" /\ state = "FetchDecode" /\ fault = "none" /\ interrupts = 0
    /\ instruction = "inst_random" /\ instruction_data = \hC203
    /\ random = \h8208 /\ Reg(2) = \h02 /\ ret = 36
    /\ bytes[\h108] = \h56

\* C20 as stated: FX29 completes without a fatal error for every VX, sets I to
\* 0x8100 + the table byte for the digit VX & 0xF, and costs 20 cycles.
C20_LoadChar ==
    [][Runs("inst_load_char") =>
        /\ fault' = "none"
        /\ i' >= \h8100 /\ i' <= \h81FF
        /\ ret' = 20]_vars

\* F129 has run and the interpreter has stopped on a fatal error
C20_Witness ==
    /\ op = "cycle" /\ fault = "panic"
    /\ instruction = "inst_load_char" /\ instruction_data = \hF129
    /\ program_counter = \h204 /\ i = \h0000

---------------------------------------------------------------------------
(* The memory and index opcodes, run from programs that set their operands *)

\* VA = v; I = 0x300; the decimal digits of VA at I
BcdRoms == {W(\h6A00 + v) \o W(\hA300) \o W(\hFA33) : v \in 0 .. 255}

BcdInit == \E rom \in BcdRoms : New(rom)

BcdSpec == BcdInit /\ [][Next]_vars

\* the registers of test_save_v_at_i
SavedRegisters ==
    <<\h10, \h11, \h12, \h13, \h14, \h15, \h16, \h17,
      \h18, \h19, \h1A, \h1B, \h1C, \h1D, \h1E, \h1F>>

\* V0..V2 = 0x10..0x12; I = 0x300; save V0..VX; V0..V2 = 0; I = 0x300; load V0..VX
SaveLoadRoms ==
    {W(\h6010) \o W(\h6111) \o W(\h6212) \o W(\hA300) \o W(\hF055 + x * 256)
        \o W(\h6000) \o W(\h6100) \o W(\h6200) \o W(\hA300) \o W(\hF065 + x * 256) :
        x \in {0, 1, 2, 15}}

\* I = 0x208; load V0..VF; I = 0x300; save V0..VF; at 0x208 the sixteen bytes of
\* test_load_v_at_i
LoadSaveRom ==
    W(\hA208) \o W(\hFF65) \o W(\hA300) \o W(\hFF55) \o SavedRegisters

\* V0 = v; V2 = V3 = VF = 7; jump to nnn + V0: the offsets of test_jump_offset and
\* test_jump_offset_across_pages, none and the largest; targets in, past and at
\* the end of a page, and past the end of memory
JumpRoms ==
    {W(\h6000 + v) \o W(\h6207) \o W(\h6307) \o W(\h6F07) \o W(\hB000 + nnn) :
        v \in {\h00, \h40, \hDD, \hFF}, nnn \in {\h2F8, \h300, \hF01, \hFFF}}

\* VX = v; I = nnn; I += VX: the operands of test_add_x_to_i and
\* test_add_x_to_i_with_carry, nothing and the most added, I in the last page,
\* VX being VA or VF
AddIRoms ==
    {W(\h6000 + x * 256 + v) \o W(\hA000 + nnn) \o W(\hF01E + x * 256) :
        x \in {\hA, \hF}, v \in {\h00, \h84, \hFF}, nnn \in {\h042, \h082, \hFFF}}

\* V0 = x; V1 = 4; I = 0x20C; draw n rows at (V0, V1); clear the screen; the
\* sprite rows at 0x20C
ClearRoms ==
    {W(\h6000 + x) \o W(\h6104) \o W(\hA20C) \o W(\hD010 + n) \o W(\h00E0) \o W(0)
        \o SpriteData : x \in {4, 58}, n \in {0, 5}}

\* nothing to load: the interpreter stays as constructed
EmptyRom == <<>>

\* VX = v; VX += nn: the operands of test_add_to_vx and test_add_to_vx_overrun,
\* nothing and the most added, VX being V1, VA or VF
AddRoms ==
    {W(\h6000 + x * 256 + v) \o W(\h7000 + x * 256 + nn) :
        x \in {\h1, \hA, \hF}, v \in {\h00, \h81, \hFF}, nn \in {\h00, \h82, \h99, \hFF}}

OpRoms ==
    SaveLoadRoms \cup {LoadSaveRom, EmptyRom} \cup JumpRoms \cup AddIRoms \cup ClearRoms
        \cup AddRoms

OpInit == \E rom \in OpRoms : New(rom)

OpSpec == OpInit /\ [][Next]_vars

\* the step wrote no byte outside [addr, addr + len)
WritesWithin(addr, len) ==
    \A a \in DOMAIN bytes : bytes'[a] # bytes[a] => a >= addr /\ a < addr + len

\* the registers of the interpreter outside the memory map, but for pc and I
SameMachine ==
    UNCHANGED <<stack_pointer, tone_timer, general_timer, random, display_pointer>>

\* C21: FX33 writes the hundreds, tens and ones digits of VX to mem[I], mem[I+1]
\* and mem[I+2] for every VX in 0..255, writes nothing else, leaves I and VX as
\* they were, and costs 84 + 16 * (sum of the three digits) cycles.
C21_Bcd ==
    [][Runs("inst_x_to_bcd") =>
        LET v == Reg(vx)
            hundreds == v \div 100
            tens == (v \div 10) % 10
            ones == v % 10
        IN  /\ fault' = "none"
            /\ bytes'[i] = hundreds
            /\ bytes'[i + 1] = tens
            /\ bytes'[i + 2] = ones
            /\ v = 100 * hundreds + 10 * tens + ones
            /\ WritesWithin(i, 3)
            /\ i' = i
            /\ Reg(vx)' = v
            /\ ret' = 84 + 16 * (hundreds + tens + ones)
            /\ (v = \h7B => bytes'[i] = 1 /\ bytes'[i + 1] = 2 /\ bytes'[i + 2] = 3
                                /\ ret' = 180)]_vars

\* FX33 has run on VX = 0x7B
C21_Witness ==
    /\ op = "cycle"
    /\ fault = "none"
    /\ state = "FetchDecode"
    /\ instruction = "inst_x_to_bcd"
    /\ Reg(vx) = \h7B
    /\ bytes[i] = 1 /\ bytes[i + 1] = 2 /\ bytes[i + 2] = 3
    /\ ret = 180

\* C22: FX55 copies V0..VX to mem[I..I+x] and FX65 copies mem[I..I+x] to V0..VX;
\* each writes nothing else (so the registers above VX stay as they were), leaves
\* I increased by x + 1 and costs 14 + 14 * (x + 1) + 4 cycles; an FX65 from the
\* address an FX55 stored to, the stored bytes untouched since, gives V0..VX the
\* values they had at the FX55.
C22_SaveLoad ==
    [][/\ Runs("inst_save_v_at_i") =>
            /\ fault' = "none"
            /\ \A k \in 0 .. vx : bytes'[i + k] = Reg(k)
            /\ WritesWithin(i, vx + 1)
            /\ \A r \in 0 .. 15 : Reg(r)' = Reg(r)
            /\ i' = i + vx + 1
            /\ ret' = 14 + 14 * (vx + 1) + 4
       /\ Runs("inst_load_v_at_i") =>
            /\ fault' = "none"
            /\ \A k \in 0 .. vx : Reg(k)' = bytes[i + k]
            /\ WritesWithin(var_addr, vx + 1)
            /\ \A r \in vx + 1 .. 15 : Reg(r)' = Reg(r)
            /\ i' = i + vx + 1
            /\ ret' = 14 + 14 * (vx + 1) + 4
            /\ (saved.at = i /\ Len(saved.regs) >= vx + 1 =>
                    \A k \in 0 .. vx : Reg(k)' = saved.regs[k + 1])]_vars

\* an FX65 has brought back V0 and V1 that were overwritten after the FX55, and
\* left V2 as overwritten
C22_Witness ==
    /\ op = "cycle"
    /\ fault = "none"
    /\ state = "FetchDecode"
    /\ instruction = "inst_load_v_at_i"
    /\ vx = 1
    /\ saved.at = \h300
    /\ i = \h302
    /\ saved.regs = <<\h10, \h11>>
    /\ Reg(0) = \h10 /\ Reg(1) = \h11 /\ Reg(2) = \h00
    /\ ret = 46

\* C23: BNNN sets program_counter to nnn + V0, whatever the x nibble of the word
\* is, and costs 24 cycles when the target lies in another 256-byte page than nnn
\* and 22 cycles otherwise.
C23_JumpOffset ==
    [][Runs("inst_jump_with_offset") =>
        LET nnn == instruction_data % 4096
            target == nnn + Reg(0)
        IN  /\ fault' = "none"
            /\ program_counter' = target
            /\ ret' = IF target \div 256 # nnn \div 256 THEN 24 ELSE 22
            /\ bytes' = bytes
            /\ i' = i]_vars

\* a BNNN whose x nibble names a register that differs from V0 has jumped across
\* a page
C23_Witness ==
    /\ op = "cycle"
    /\ fault = "none"
    /\ state = "FetchDecode"
    /\ instruction = "inst_jump_with_offset"
    /\ vx # 0
    /\ Reg(0) # 0
    /\ Reg(vx) # Reg(0)
    /\ program_counter = (instruction_data % 4096) + Reg(0)
    /\ program_counter \div 256 # (instruction_data % 4096) \div 256
    /\ ret = 24

\* C24: FX1E sets I to I + VX, leaves VX and VF (every register) as they were,
\* and costs 16 cycles when the high byte of I is as before and 22 cycles when the
\* addition crossed a 256-byte page.
C24_AddToI ==
    [][Runs("inst_add_x_to_i") =>
        /\ fault' = "none"
        /\ i' = i + Reg(vx)
        /\ Reg(vx)' = Reg(vx)
        /\ Reg(15)' = Reg(15)
        /\ bytes' = bytes
        /\ ret' = IF i' \div 256 = i \div 256 THEN 16 ELSE 22]_vars

\* an FX1E has carried into the high byte of I
C24_Witness ==
    /\ op = "cycle"
    /\ fault = "none"
    /\ state = "FetchDecode"
    /\ instruction = "inst_add_x_to_i"
    /\ Reg(vx) = \h84
    /\ i = \h106
    /\ ret = 22

\* C30: 00E0 sets all 256 bytes of the display region to zero, changes no byte
\* outside the display region and no register, and costs 24 cycles.
C30_ClearScreen ==
    [][Runs("inst_clear_screen") =>
        /\ fault' = "none"
        /\ \A a \in 0 .. \hFF : bytes'[display_addr + a] = 0
        /\ WritesWithin(display_addr, \h100)
        /\ \A r \in 0 .. 15 : Reg(r)' = Reg(r)
        /\ SameMachine
        /\ UNCHANGED <<i, program_counter, vx, vy>>
        /\ ret' = 24]_vars

\* the 00E0 that follows a five-row draw has run, and the display is dark
C30_Witness ==
    /\ op = "cycle"
    /\ fault = "none"
    /\ state = "FetchDecode"
    /\ instruction = "inst_clear_screen"
    /\ bytes[\h206] = \hD0 /\ bytes[\h207] = \h15
    /\ program_counter = \h20A
    /\ Reg(0) = 58
    /\ \A a \in 0 .. \hFF : bytes[display_addr + a] = 0
    /\ ret = 24

---------------------------------------------------------------------------
(* memory.rs: MemoryMap::write called with arguments of the caller's choice *)

\* the source slices: none, one byte, three bytes, the eight bytes of
\* test_write_slice_ok and sixteen bytes
WriteData ==
    {<<>>, <<\hA1>>, <<\hA1, \hA2, \hA3>>, <<0, 1, 2, 3, 4, 5, 6, 7>>, SavedRegisters}

\* the destinations: in the interpreter image, in the program area, the address of
\* test_read_too_much_panic, the last bytes of memory and one past the end
WriteAddrs == {0, 8, \h200, 4089, 4094, 4096}

\* the lengths asked for
WriteLens == {0, 1, 3, 8, 16}

\* a call of write(data, addr, len) on the memory map as constructed and loaded:
\* get_rw_slice(addr, len) panics past the end of the array, before a byte is
\* copied
Write ==
    /\ op = "new"
    /\ \E data \in WriteData, addr \in WriteAddrs, len \in WriteLens :
          /\ written' = [data |-> data, addr |-> addr, len |-> len]
          /\ IF SliceOk(bytes, addr, len)
             THEN bytes' = write(bytes, Arr(data), addr, len) /\ fault' = "none"
             ELSE bytes' = bytes /\ fault' = "panic"
    /\ op' = "write"
    /\ UNCHANGED <<stack_pointer, instruction, instruction_data, program_counter,
                   vx, vy, tone_timer, general_timer, random, i, display_pointer,
                   state, ret, drawn, interrupts, last_draw, calls, polled, saved,
                   timer_set, pending, n_calls, n_rets>>
    /\ UNCHANGED loop_vars

WriteInit == New(FixtureRom)

WriteSpec == WriteInit /\ [][Write]_vars

\* the step is a call of write that fits in memory / that does not
WriteFits == op' = "write" /\ written'.addr + written'.len <= CHIP8_RAM_SIZE_BYTES
WritePastEnd == op' = "write" /\ written'.addr + written'.len > CHIP8_RAM_SIZE_BYTES

ProgramRegion == \h0200 .. \h0E9F
StackRegion == \h0EA0 .. \h0ECF
WorkRegion == \h0ED0 .. \h0EEF
VarRegion == \h0EF0 .. \h0EFF
DisplayRegion == \h0F00 .. \h0FFF

---------------------------------------------------------------------------
(* interpreter.rs: main_loop, the frames and the pacing of the interpreter *)

CHIP8_TARGET_FREQ_NS == 1000000000 \div 60
CHIP8_CYCLE_NS == 4540

\* calls explored that take longer than the machine would (each shifts the clock
\* of everything after it, so they are capped)
MaxSlow == 1

\* time::Duration::from_nanos(CHIP8_CYCLE_NS * t as u64)
Nanos(t) == CHIP8_CYCLE_NS * t

\* the time a call of interrupt() or cycle() is seen to take between two readings
\* of Instant::now(): none to speak of, or that of 2000 machine cycles, which is
\* more than the machine takes for the interrupt or for any instruction
Elapsed == IF slow < MaxSlow THEN {0, Nanos(2000)} ELSE {0}

\* a for loop that runs one frame more than asked
FramesLeftInclusive(f, n) == f <= n

\* for frame in 0..frame_count
FramesLeft(f, n) == f < n

\* the excess forgotten at the end of the frame
CarryNothing(end, limit) == 0

\* remaining_sleep = inst_end - frame_end
Carry(end, limit) == end - limit

\* how a failed call leaves main_loop: `?` returns the Err, a panic unwinds
Leaves(failure) == IF failure = "error" THEN "returned" ELSE "unwound"

\* main_loop(frame_count) is called
MainLoop ==
    /\ at = "idle"
    /\ op = "new"
    /\ \E n \in 0 .. MaxInterrupts : frame_count' = n
    /\ at' = "for"
    /\ frame' = 0
    /\ remaining_sleep' = 0
    /\ UNCHANGED <<now, frame_end, inst_end, clock, slept, warnings, cycles, slow>>
    /\ UNCHANGED <<bytes, stack_pointer, instruction, instruction_data,
                   program_counter, vx, vy, tone_timer, general_timer, random, i,
                   display_pointer, state, ret, op, fault, drawn, interrupts,
                   last_draw, calls, polled, saved, written, timer_set, pending,
                   n_calls, n_rets>>

\* the top of a frame: the interrupt and its sleep; thread::sleep returns on time
Frame ==
    /\ at = "for"
    /\ fault = "none"
    /\ FramesLeft(frame, frame_count)
    /\ \E draw_ok \in BOOLEAN, e \in Elapsed :
          LET end == clock + Nanos(ret') + remaining_sleep
          IN  /\ InterruptCall(draw_ok)
              /\ frame_end' = clock + CHIP8_TARGET_FREQ_NS
              /\ now' = clock + e
              /\ slow' = IF e > 0 THEN slow + 1 ELSE slow
              /\ cycles' = 0
              /\ IF fault' # "none"
                 THEN /\ at' = Leaves(fault')
                      /\ clock' = clock + e
                      /\ UNCHANGED <<inst_end, slept, warnings>>
                 ELSE /\ at' = "loop"
                      /\ inst_end' = end
                      /\ IF end >= clock + e
                         THEN /\ slept' = end - (clock + e)
                              /\ clock' = end
                              /\ warnings' = warnings
                         ELSE /\ slept' = 0
                              /\ clock' = clock + e
                              /\ warnings' = warnings + 1
    /\ UNCHANGED <<frame_count, frame, remaining_sleep>>

\* one pass of the loop of instructions: a cycle() and its sleep
Step ==
    /\ at = "loop"
    /\ fault = "none"
    /\ \E key \in KeysFor(Self), oc \in ChecksFor(Self), e \in Elapsed :
          LET end == clock + Nanos(ret')
          IN  /\ CycleCall(key, oc)
              /\ now' = clock + e
              /\ slow' = IF e > 0 THEN slow + 1 ELSE slow
              /\ cycles' = cycles + 1
              /\ IF fault' # "none"
                 THEN /\ at' = Leaves(fault')
                      /\ clock' = clock + e
                      /\ UNCHANGED <<inst_end, slept, warnings, remaining_sleep, frame>>
                 ELSE IF end >= frame_end
                 THEN /\ at' = "for"
                      /\ frame' = frame + 1
                      /\ inst_end' = end
                      /\ remaining_sleep' = Carry(end, frame_end)
                      /\ warnings' = warnings
                      /\ IF frame_end >= clock + e
                         THEN slept' = frame_end - (clock + e) /\ clock' = frame_end
                         ELSE slept' = 0 /\ clock' = clock + e
                 ELSE /\ at' = "loop"
                      /\ inst_end' = end
                      /\ UNCHANGED <<remaining_sleep, frame>>
                      /\ IF end >= clock + e
                         THEN /\ slept' = end - (clock + e)
                              /\ clock' = end
                              /\ warnings' = warnings
                         ELSE /\ slept' = 0
                              /\ clock' = clock + e
                              /\ warnings' = warnings + 1
    /\ UNCHANGED <<frame_count, frame_end>>

\* the for loop is over: Ok(())
Return ==
    /\ at = "for"
    /\ fault = "none"
    /\ ~FramesLeft(frame, frame_count)
    /\ at' = "returned"
    /\ UNCHANGED <<frame_count, frame, remaining_sleep, now, frame_end, inst_end,
                   clock, slept, warnings, cycles, slow>>
    /\ UNCHANGED <<bytes, stack_pointer, instruction, instruction_data,
                   program_counter, vx, vy, tone_timer, general_timer, random, i,
                   display_pointer, state, ret, op, fault, drawn, interrupts,
                   last_draw, calls, polled, saved, written, timer_set, pending,
                   n_calls, n_rets>>

\* V0 = 3; the timer set from V0; then V0..VF stored, over and over
StoreRom ==
    W(\h6003) \o W(\hF015)
    \o [k \in 1 .. 16 * (MaxInterrupts + 1) |-> IF k % 2 = 1 THEN \hFF ELSE \h55]

\* a key opcode first, then nothing that decodes
KeyRom == W(\h6004) \o W(\hE09E)

\* the digits of VA stored past the end of memory
PastEndRom == W(\hAFFF) \o W(\hFA33)

LoopRoms == {StoreRom, KeyRom, PastEndRom, EmptyRom}

LoopInit == \E rom \in LoopRoms : New(rom)

LoopNext == MainLoop \/ Frame \/ Step \/ Return

\* main_loop has a step to take: it was called, or it is in its loops with no call
\* failed (interrupt() and cycle() return for every state of the interpreter)
Running == (at = "idle" /\ op = "new") \/ (at \in {"for", "loop"} /\ fault = "none")

\* the thread of main_loop is never starved for good: weak fairness of LoopNext,
\* with its enabling condition written out as Running
LoopFair == []<>(~Running) \/ []<><<LoopNext>>_vars

LoopSpec == LoopInit /\ [][LoopNext]_vars /\ LoopFair

\* main_loop(2) has returned Ok after two frames, one call having overrun
C27_Witness ==
    /\ at = "returned"
    /\ fault = "none"
    /\ frame_count = 2
    /\ frame = 2
    /\ interrupts = 2
    /\ warnings > 0

\* the step is a call main_loop makes of interrupt() / of cycle()
LoopInterrupt == at = "for" /\ interrupts' = interrupts + 1
LoopCycle == at = "loop" /\ cycles' = cycles + 1

\* the larger of two durations
Later(a, b) == IF a >= b THEN a ELSE b

\* C27: main_loop(n), when no call fails, runs exactly n frames and returns Ok;
\* every frame calls interrupt() exactly once, before any cycle() of the frame,
\* then cycle() one or more times until an instruction's scheduled end reaches or
\* passes the end of the frame; an overrun only prints a warning: the run goes on
\* with the next cycle().
C27_MainLoop ==
    /\ [][/\ interrupts' # interrupts =>
                /\ LoopInterrupt
                /\ frame < frame_count
                /\ interrupts = frame
                /\ cycles' = 0
                /\ frame' = frame
                /\ frame_end' = clock + CHIP8_TARGET_FREQ_NS
          /\ cycles' > cycles =>
                /\ LoopCycle
                /\ op' = "cycle"
                /\ interrupts = frame + 1
                /\ interrupts' = interrupts
                /\ fault' = "none" =>
                      IF inst_end' >= frame_end
                      THEN at' = "for" /\ frame' = frame + 1
                      ELSE at' = "loop" /\ frame' = frame
          /\ frame' # frame => (at = "idle" /\ frame' = 0) \/ (LoopCycle /\ cycles' >= 1)
          /\ op' # op => interrupts' # interrupts \/ cycles' > cycles
          /\ warnings' # warnings =>
                /\ warnings' = warnings + 1
                /\ fault' = "none"
                /\ at' = "loop"
                /\ inst_end' < now'
          /\ at' = "returned" /\ fault' = "none" =>
                /\ at = "for"
                /\ frame = frame_count
                /\ interrupts = frame_count
                /\ UNCHANGED <<op, interrupts, cycles>>]_vars
    /\ <>(at = "returned" \/ fault # "none")

\* C28: when an instruction's scheduled end reaches or passes the frame end, the
\* sleep asked for goes to the frame end only and the whole excess (scheduled end
\* minus frame end) is kept in remaining_sleep; the next frame adds it to the
\* scheduled end of the interrupt, hence to the interrupt's sleep; nothing else
\* changes remaining_sleep.
C28_CarriesExcess ==
    [][/\ LoopCycle /\ fault' = "none" /\ inst_end' >= frame_end =>
            /\ inst_end' = clock + Nanos(ret')
            /\ remaining_sleep' = inst_end' - frame_end
            /\ slept' = Later(frame_end - now', 0)
            /\ clock' = Later(frame_end, now')
       /\ LoopInterrupt /\ fault' = "none" =>
            /\ inst_end' = clock + Nanos(ret') + remaining_sleep
            /\ slept' = Later(inst_end' - now', 0)
            /\ clock' = Later(inst_end', now')
            /\ remaining_sleep' = remaining_sleep
       /\ remaining_sleep' # remaining_sleep =>
            LoopCycle /\ fault' = "none" /\ inst_end' >= frame_end]_vars

\* the second frame's interrupt has slept its own time and the excess of the first
\* frame's last instruction
C28_Witness ==
    /\ at = "loop"
    /\ op = "interrupt"
    /\ frame = 1
    /\ remaining_sleep > 0
    /\ inst_end = now + Nanos(ret) + remaining_sleep
    /\ slept = Nanos(ret) + remaining_sleep
    /\ clock = inst_end

\* C29: every fatal failure (the display failing in interrupt(), the input failing
\* in a key opcode, an opcode writing past the end of memory, a word no handler
\* matches) comes back from cycle() / interrupt() as an error result, on which
\* main_loop returns; after the failure no cycle() or interrupt() call is made.
C29_FailuresSurface ==
    [][/\ fault = "none" /\ fault' # "none" => fault' = "error" /\ at' = "returned"
       /\ fault # "none" => UNCHANGED <<op, interrupts, cycles>>]_vars

\* a word no handler matches has ended the run by unwinding main_loop
C29_Witness ==
    /\ fault = "panic"
    /\ at = "unwound"
    /\ op = "cycle"
    /\ state = "FetchDecode"
    /\ frame < frame_count


---------------------------------------------------------------------------
(* the remaining opcodes, the timers, the states and the stack *)

\* C31: 7xnn sets VX to (VX + nn) mod 256, changes no other register (no carry
\* goes to VF when x is not F) and no other byte or field, and costs 10 cycles.
C31_AddToVx ==
    [][Runs("inst_add_to_vx") =>
        /\ fault' = "none"
        /\ Reg(vx)' = (Reg(vx) + LowByte(instruction_data)) % 256
        /\ \A r \in 0 .. 15 : r # vx => Reg(r)' = Reg(r)
        /\ WritesWithin(var_addr + vx, 1)
        /\ SameMachine
        /\ UNCHANGED <<i, program_counter, vx, vy>>
        /\ ret' = 10]_vars

\* 0x81 + 0x82 has left 0x03 in V1 and every other register 0
C31_Witness ==
    /\ op = "cycle"
    /\ fault = "none"
    /\ state = "FetchDecode"
    /\ instruction = "inst_add_to_vx"
    /\ instruction_data = \h7182
    /\ Reg(1) = \h03
    /\ \A r \in 0 .. 15 : r # 1 => Reg(r) = 0
    /\ ret = 10


\* the larger of a count and zero
AtLeastZero(n) == IF n >= 0 THEN n ELSE 0

\* C32: FX15 sets general_timer to VX and FX07 copies general_timer into VX, 10
\* cycles each; only FX15 and interrupt() change general_timer, so an FX07 run
\* after FX15 loaded N and k interrupts have occurred reads max(N - k, 0).
C32_Timer ==
    [][/\ Runs("inst_set_timer") =>
            /\ fault' = "none"
            /\ general_timer' = Reg(vx)
            /\ bytes' = bytes
            /\ ret' = 10
       /\ Runs("inst_get_timer") =>
            /\ fault' = "none"
            /\ Reg(vx)' = general_timer
            /\ general_timer' = general_timer
            /\ WritesWithin(var_addr + vx, 1)
            /\ ret' = 10
            /\ (timer_set.by = "FX15" =>
                    Reg(vx)' = AtLeastZero(timer_set.n - timer_set.k))
       /\ general_timer' # general_timer =>
            Runs("inst_set_timer") \/ InterruptStep]_vars

\* an FX07 has read 1: FX15 had loaded 2 and one interrupt has occurred since
C32_Witness ==
    /\ op = "cycle"
    /\ fault = "none"
    /\ state = "FetchDecode"
    /\ instruction = "inst_get_timer"
    /\ timer_set = [n |-> 2, k |-> 1, by |-> "FX15"]
    /\ Reg(vx) = 1
    /\ general_timer = 1
    /\ ret = 10

\* an FX07 has read 0 from a timer that ran out an interrupt earlier
C32_RanOut ==
    /\ op = "cycle"
    /\ instruction = "inst_get_timer"
    /\ state = "FetchDecode"
    /\ timer_set.by = "FX15"
    /\ timer_set.n < timer_set.k
    /\ Reg(vx) = 0


\* C33: in every reachable state, state = Execute implies a decoded instruction is
\* present (call() never finds the slot empty), and state = WaitInterrupt implies
\* the pending instruction is the second phase of the sprite draw, with
\* instruction_data still the DXYN word that started the draw.
C33_Pending ==
    /\ state = "Execute" => instruction # "None"
    /\ state = "WaitInterrupt" =>
          /\ instruction = "inst_draw_sprite_pt2"
          /\ DxynBehindPc

\* a cycle() has found the interpreter waiting, the second phase of D015 pending
C33_Witness ==
    /\ op = "cycle"
    /\ fault = "none"
    /\ state = "WaitInterrupt"
    /\ ret = 1
    /\ instruction = "inst_draw_sprite_pt2"
    /\ instruction_data = \hD015


\* the framebuffer is as the DXYN begun last found it
AsBeforeSprite ==
    \A a \in 0 .. \hFF : bytes[display_addr + a] = pending.vram[a]

\* C35: the first phase of DXYN modifies only the 32-byte work area, the state and
\* the pending instruction; the framebuffer, V0-VF, I and program_counter are
\* unchanged, so the frame drawn by the interrupt that resumes the draw shows the
\* framebuffer as it was before the sprite, and the second phase still finds it so:
\* the sprite's pixels appear only after phase two.
C35_PhaseOne ==
    [][/\ Runs("inst_draw_sprite") =>
            /\ WritesWithin(work_addr, 32)
            /\ \A a \in 0 .. \hFF : bytes'[display_addr + a] = bytes[display_addr + a]
            /\ \A r \in 0 .. 15 : Reg(r)' = Reg(r)
            /\ SameMachine
            /\ UNCHANGED <<i, program_counter, vx, vy, instruction_data>>
       /\ (CycleStep /\ state = "WaitInterrupt") => bytes' = bytes
       /\ (InterruptStep /\ state = "WaitInterrupt") =>
            /\ drawn' = <<display_pointer, \h100>>
            /\ display_pointer = display_addr
            /\ AsBeforeSprite
            /\ bytes' = bytes
       /\ Runs("inst_draw_sprite_pt2") => AsBeforeSprite]_vars

\* the interrupt that resumes a five-row draw at (58, 4) has drawn a dark frame:
\* the sprite is in the work area and not yet in the framebuffer
C35_Witness ==
    /\ op = "interrupt"
    /\ fault = "none"
    /\ state = "Execute"
    /\ instruction = "inst_draw_sprite_pt2"
    /\ Nibble0(instruction_data) = 5
    /\ RegX = 58
    /\ drawn = <<display_addr, \h100>>
    /\ \A a \in 0 .. \hFF : bytes[display_addr + a] = 0
    /\ \E j \in 0 .. 9 : bytes[work_addr + j] # 0


\* C36: interrupt() never changes memory, program_counter, stack_pointer, I, vx,
\* vy or the decoded instruction, hands the 256 bytes of the display region to
\* Display::draw, and leaves the state as it is in FetchDecode and Execute; an
\* instruction fetched and not yet executed when the interrupt arrived is run
\* unchanged by the next cycle() (a 6xnn so interrupted loads nn into VX).
C36_Interrupt ==
    [][/\ InterruptStep =>
            /\ UNCHANGED <<bytes, program_counter, stack_pointer, i, vx, vy,
                           instruction, instruction_data, display_pointer>>
            /\ drawn' = <<display_addr, \h100>>
            /\ display_addr + \h100 = CHIP8_RAM_SIZE_BYTES
            /\ (state \in {"FetchDecode", "Execute"} => state' = state)
       /\ (op = "interrupt" /\ Runs("inst_load_vx")) =>
            /\ fault' = "none"
            /\ Reg(vx)' = LowByte(instruction_data)
            /\ vx = Nibble2(instruction_data)
            /\ program_counter' = program_counter
            /\ ret' = 6]_vars

\* an interrupt has arrived between the fetch of 6A81 and its execution
C36_Witness ==
    /\ op = "interrupt"
    /\ fault = "none"
    /\ state = "Execute"
    /\ instruction = "inst_load_vx"
    /\ instruction_data = \h6A81
    /\ program_counter = \h0202
    /\ Reg(\hA) = 0
    /\ drawn = <<display_addr, \h100>>
    /\ ret = 1831


\* C37: the second phase of DXYN writes only inside the 256-byte framebuffer and
\* to VF, whatever VX, VY and the row count are: no byte of the program, the
\* stack, the work area or V0-VE is modified (nor any field but the state).
C37_PhaseTwoWrites ==
    [][Runs("inst_draw_sprite_pt2") =>
        /\ fault' = "none"
        /\ \A a \in DOMAIN bytes :
              bytes'[a] # bytes[a] =>
                  \/ a \in DisplayRegion
                  \/ a = var_addr + 15
        /\ \A a \in ProgramRegion \cup StackRegion \cup WorkRegion :
              bytes'[a] = bytes[a]
        /\ \A r \in 0 .. 14 : Reg(r)' = Reg(r)
        /\ SameMachine
        /\ UNCHANGED <<i, program_counter, vx, vy, instruction, instruction_data>>]_vars

\* fifteen rows drawn at (58, 62): the sprite ran off the right and the bottom of
\* the screen, two rows of it are lit and the collision flag is set
C37_Witness ==
    /\ op = "cycle"
    /\ fault = "none"
    /\ state = "FetchDecode"
    /\ instruction = "inst_draw_sprite_pt2"
    /\ Nibble0(instruction_data) = 15
    /\ RegX = 58
    /\ RegY = 62
    /\ Reg(15) = 1
    /\ bytes[display_addr + \hF7] # 0
    /\ bytes[display_addr + \hFF] # 0


\* C38: after each of 8xy4, 8xy5, 8xy6, 8xy7 and 8xyE, VF holds the carry, the
\* no-borrow bit or the bit shifted out, computed from the operands as they were,
\* also when x = F or y = F: the flag is written last and replaces the result the
\* opcode stored in VF.
C38_FlagLast ==
    [][/\ Runs("inst_x_add_y") =>
            Reg(15)' = IF Reg(vx) + Reg(vy) > 255 THEN 1 ELSE 0
       /\ Runs("inst_x_minus_y") =>
            Reg(15)' = IF Reg(vx) >= Reg(vy) THEN 1 ELSE 0
       /\ Runs("inst_rshift_y_load_x") => Reg(15)' = Bit(Reg(vy), 0)
       /\ Runs("inst_y_minus_x") =>
            Reg(15)' = IF Reg(vy) >= Reg(vx) THEN 1 ELSE 0
       /\ Runs("inst_lshift_y_load_x") => Reg(15)' = Bit(Reg(vy), 7)
       /\ (CycleStep /\ state = "Execute" /\ Nibble3(instruction_data) = 8
             /\ Nibble0(instruction_data) \in {\h4, \h5, \h6, \h7, \hE}) =>
            /\ fault' = "none"
            /\ Reg(15)' \in {0, 1}
            /\ ret' = 44]_vars

\* 8FA7 with VF = 0x4B and VA = 0xED: the difference 0xA2 went to VF and the flag
\* 1 (no borrow) replaced it
C38_Witness ==
    /\ op = "cycle"
    /\ fault = "none"
    /\ state = "FetchDecode"
    /\ instruction = "inst_y_minus_x"
    /\ instruction_data = \h8FA7
    /\ Reg(10) = \hED
    /\ Reg(15) = 1
    /\ ret = 44


---------------------------------------------------------------------------
(* the stack under programs that call without end, no interrupt arriving *)

\* V0 = 0x20; V1 = 0; V0 and V1 stored at I = 0; jump to 0x000: the word there is
\* now 2000, a subroutine that calls itself
DeepRom == W(\h6020) \o W(\h6100) \o W(\hF155) \o W(\h1000)

\* a return with no call before it
ReturnRom == W(\h6A81) \o W(\h00EE)

DeepRoms == {DeepRom, ReturnRom, CallRom}

\* the calls DeepRom has made when eight more take the stack pointer to 0
DeepCalls == (stack_addr \div 2) - 8

\* DeepRom after its k-th call: V0 and the word 2000 are where the program put them,
\* the return address 0x0002 fills the memory from stack_addr down to the stack
\* pointer (the program that was at 0x0200 is under it), and the next word to
\* fetch is the call at 0x000
Deep(k) ==
    /\ bytes = [a \in 0 .. CHIP8_RAM_SIZE_BYTES - 1 |->
                  IF a >= stack_addr - 2 * (k - 1) /\ a < stack_addr + 2
                  THEN (IF a % 2 = 0 THEN \h00 ELSE \h02)
                  ELSE IF a = 0 \/ a = var_addr THEN \h20
                  ELSE IF a = 1 THEN \h00
                  ELSE load_program(NewMemory, DeepRom)[a]]
    /\ stack_pointer = stack_addr - 2 * k
    /\ instruction = "inst_subroutine"
    /\ instruction_data = \h2000
    /\ program_counter = \h0000
    /\ vx = \h0000
    /\ vy = \h0000
    /\ tone_timer = 0
    /\ general_timer = 0
    /\ random = \h0000
    /\ i = \h0002
    /\ display_pointer = display_addr
    /\ state = "FetchDecode"
    /\ ret = 26
    /\ op = "cycle"
    /\ fault = "none"
    /\ drawn = <<>>
    /\ interrupts = 0
    /\ last_draw = NoDraw
    /\ calls = [n \in 1 .. k |-> [back |-> \h0002, sp |-> stack_addr - 2 * (n - 1)]]
    /\ polled = NotRead
    /\ saved = [at |-> 0, regs |-> <<\h20, \h00>>]
    /\ written = NoWrite
    /\ timer_set = [n |-> 0, k |-> 0, by |-> "new"]
    /\ pending = NoPending
    /\ n_calls = k
    /\ n_rets = 0
    /\ NotRunning

\* the programs as loaded, and DeepRom well into its run
DeepInit == (\E rom \in DeepRoms : New(rom)) \/ Deep(DeepCalls)

DeepSpec == DeepInit /\ [][Cycle]_vars

\* C39 as stated: in every reachable state stack_pointer is stack_addr less twice
\* the number of calls executed less the number of returns executed.
C39_StackAsStated == stack_pointer = stack_addr - 2 * (n_calls - n_rets)

\* C39, amended: while no call has failed, stack_pointer is stack_addr less twice
\* (calls executed less returns executed), taken modulo 2^16; only 2nnn and 00EE
\* change stack_pointer, each by exactly 2 (modulo 2^16), and neither keeps it
\* within the stack region 0x0EA0-0x0ECF.
C39_Stack ==
    /\ [](fault = "none" =>
            stack_pointer = (stack_addr - 2 * (n_calls - n_rets)) % 65536)
    /\ [][/\ stack_pointer' # stack_pointer =>
                Runs("inst_subroutine") \/ Runs("inst_ret")
          /\ (Runs("inst_subroutine") /\ fault' = "none") =>
                stack_pointer' = (stack_pointer + 65536 - 2) % 65536
          /\ (Runs("inst_ret") /\ fault' = "none") =>
                stack_pointer' = (stack_pointer + 2) % 65536
          /\ (Runs("inst_subroutine") /\ stack_pointer \in StackRegion
                /\ stack_pointer + 2 <= CHIP8_RAM_SIZE_BYTES
                /\ stack_pointer >= 2) => fault' = "none"]_vars

\* twenty-five calls and no return: the stack pointer has left the stack region
\* downwards
C39_Witness ==
    /\ op = "cycle"
    /\ fault = "none"
    /\ instruction = "inst_subroutine"
    /\ state = "FetchDecode"
    /\ n_calls = 25
    /\ n_rets = 0
    /\ stack_pointer = \h0E9C
    /\ stack_pointer \notin StackRegion

\* the call made with stack_pointer = 0 in a build that does not check overflow
C39_Wrapped ==
    /\ fault = "none"
    /\ stack_pointer = \hFFFE
    /\ n_calls = 1896


\* the run of DeepRom from the program as loaded passes through Deep(DeepCalls):
\* the state its DeepCalls-th call leaves is the state DeepSpec also starts from
DeepOnRun ==
    (n_calls = DeepCalls /\ state = "FetchDecode") =>
        /\ Deep(DeepCalls)
        /\ bytes[stack_pointer + 2] = \h00
        /\ bytes[stack_pointer + 3] = \h02


\* C40: tone_timer is 0 in every reachable state (no decoded opcode writes it:
\* FX18 matches no handler), so interrupt() never adds the 4 cycles of a running
\* tone timer: the duration it reports is 1831 or 1839 cycles.
C40_ToneTimer ==
    /\ tone_timer = 0
    /\ (op = "interrupt" /\ fault = "none") => ret \in {1831, 1839}
    /\ \A x \in 0 .. 15 : Decode(\hF018 + 256 * x) = "panic"

\* an interrupt has counted the general timer down from 2 and reported 1839 cycles
C40_Witness ==
    /\ op = "interrupt"
    /\ fault = "none"
    /\ tone_timer = 0
    /\ general_timer = 1
    /\ timer_set = [n |-> 2, k |-> 1, by |-> "FX15"]
    /\ ret = 1839


---------------------------------------------------------------------------
(* interpreter.rs: a sprite drawn under main_loop *)

\* V0 = 3; V1 = 4; V0..VF stored four times (the work of most of a frame);
\* I = 0x212; five rows drawn at (V0, V1); a word no handler matches; the sprite
\* rows
WaitRom ==
    W(\h6003) \o W(\h6104) \o W(\hFF55) \o W(\hFF55) \o W(\hFF55) \o W(\hFF55)
    \o W(\hA212) \o W(\hD015) \o W(\h0000) \o SpriteData

WaitInit == New(WaitRom)

WaitSpec == WaitInit /\ [][LoopNext]_vars /\ LoopFair


\* a draw is pending and main_loop has a frame to run after the one it began in
DrawToResume ==
    /\ state = "WaitInterrupt"
    /\ fault = "none"
    /\ at \in {"for", "loop"}
    /\ pending.frame + 1 < frame_count

\* C34: under main_loop, a sprite draw whose first phase ran in frame f has its
\* second phase run by the first cycle() of frame f + 1, right after that frame's
\* interrupt; every cycle() between the first phase and the end of frame f reports
\* 1 cycle and changes nothing; main_loop returns with the draw pending only when
\* frame f was its last, and a pending draw with a frame still to run is completed
\* (or a call fails).
C34_DrawUnderLoop ==
    /\ [][/\ (LoopCycle /\ state = "WaitInterrupt") =>
                /\ ret' = 1
                /\ fault' = "none"
                /\ state' = "WaitInterrupt"
                /\ frame = pending.frame
                /\ UNCHANGED <<bytes, instruction, instruction_data, program_counter>>
          /\ (LoopInterrupt /\ state = "WaitInterrupt") =>
                /\ frame = pending.frame + 1
                /\ fault' = "none" => state' = "Execute"
          /\ (LoopCycle /\ state = "Execute" /\ instruction = "inst_draw_sprite_pt2") =>
                /\ op = "interrupt"
                /\ cycles = 0
                /\ frame = pending.frame + 1
                /\ fault' = "none"
                /\ state' = "FetchDecode"
          /\ (at' = "returned" /\ state' = "WaitInterrupt" /\ fault' = "none") =>
                frame_count' = pending'.frame + 1]_vars
    /\ DrawToResume ~> (state # "WaitInterrupt" \/ fault # "none")

\* the first cycle() of frame 1 has drawn the sprite begun in frame 0, after
\* cycles of frame 0 spent waiting
C34_Witness ==
    /\ at = "loop"
    /\ fault = "none"
    /\ op = "cycle"
    /\ frame = 1
    /\ cycles = 1
    /\ pending.frame = 0
    /\ state = "FetchDecode"
    /\ instruction = "inst_draw_sprite_pt2"
    /\ interrupts = 2
    /\ \E a \in 0 .. \hFF : bytes[display_addr + a] # 0

=============================================================================
